---- MODULE Spec2Model ----
(***************************************************************************)
(* Verification model of guesscraft (20 Questions self-play).              *)
(*                                                                         *)
(*   SpecEngine  : GameEngine.play() (src/src/engine/game_engine.py),      *)
(*                 one action per callback call of the loop body, the six  *)
(*                 callbacks being arbitrary functions of their declared   *)
(*                 signatures.                                             *)
(*   SpecGuesser : GuesserEntropy (src/src/agents/guesser.py) over a       *)
(*                 Knowledge Base (src/src/kb/kb.py) and its               *)
(*                 AttributeIndex (src/src/kb/index.py), one action per    *)
(*                 public method, called in any order.                     *)
(*   SpecLLM     : one LLMClient.structured_call (src/src/llm/client.py)   *)
(*                 with its retry_call rounds (src/src/llm/retry.py)       *)
(*                 against an oracle that returns any response or raises,  *)
(*                 one action per oracle invocation, sleep and parse.      *)
(*   SpecIndex   : AttributeIndex alone, one action per query method.      *)
(*   SpecRunner  : the legacy GameRunner.play() (src/guesscraft/game.py)   *)
(*                 between a GuesserAgent and a HostAgent that answer      *)
(*                 anything their types allow, or raise.                   *)
(*   SpecHost    : HostRuleBased (src/src/agents/host.py): construction    *)
(*                 and answer() for any classification of the question.    *)
(*   SpecBatch   : run_many_concurrent (src/src/experiments/runner.py):    *)
(*                 worker threads run the games, the calling thread        *)
(*                 collects the futures as they complete.                  *)
(*   SpecLLMFair : SpecLLM with weak fairness of its steps: a call that    *)
(*                 can take a step takes one.                              *)
(*   SpecGame    : GameEngine.play() with GuesserEntropy's methods as its  *)
(*                 guesser callbacks, against a host that answers anything.*)
(*                                                                         *)
(* Python values.  A dict is the set of its <<key, value>> pairs, keys and *)
(* values being strings; an Optional[Dict] is a sequence of length <= 1    *)
(* (<< >> is None).  Event.timestamp_ms (wall clock) and the three fields  *)
(* the engine always sets to None are not part of the modelled Event.      *)
(***************************************************************************)
EXTENDS Integers, Sequences, FiniteSets, TLC

VARIABLES
    \* ---- GameEngine (game_engine.py)
    max_turns,      \* GameConfig.max_turns
    events,         \* GameEngine.events
    pc,             \* position of play() in its loop body
    turn,           \* loop variable of play()
    used,           \* local `used`
    payload,        \* the local ask_payload / guess_payload / answer_payload in flight
    returned,       \* << >> while play() runs, <<dict>> once it has returned
    calls,          \* history of the callback calls play() has made
    \* ---- GuesserEntropy (guesser.py) and its Knowledge Base
    kb,             \* ObjectKB: [attributes, objects]
    candidate_ids,  \* GuesserEntropyState.candidate_ids
    asked_attribute_ids, \* GuesserEntropyState.asked_attribute_ids
    constraints,    \* GuesserEntropyState.constraints, a dict attribute_id -> "True" / "False"
    tau,            \* GuesserEntropy._tau as a fraction <<numerator, denominator>>
    index,          \* AttributeIndex.index: attribute id -> value -> list of object ids
    questions,      \* history: the attribute ids of the questions next_question returned
    last,           \* the last GuesserEntropy call: [op, args, ret]
    \* ---- LLMClient.structured_call (client.py) and retry_call (retry.py)
    max_retries,    \* LLMClient.max_retries
    max_repairs,    \* argument max_repairs
    messages_effective, \* local messages_effective
    request,        \* the messages the current retry_call sends to the oracle
    attempts,       \* local attempts
    last_text,      \* local last_text
    repair_idx,     \* loop variable of the repair loop
    resp,           \* local resp, the last response retry_call returned
    attempt,        \* retry_call's local attempt
    llm_pc,         \* position in structured_call / retry_call
    outcome,        \* << >> while the call runs, then what it returned or raised
    oracle_log,     \* history of oracle invocations and sleeps
    \* ---- legacy GameRunner.play() (guesscraft/game.py)
    host_topic,     \* HostAgent.topic
    runner_max_turns, \* GameRunner.max_turns
    conversation,   \* local conversation: ConversationLog.entries
    topic_revealed, \* local topic_revealed (PyNone for None)
    turn_index,     \* loop variable turn_index
    turns_taken,    \* local turns_taken
    guesser_turn,   \* local guesser_turn
    guess_outcome,  \* local outcome: "unknown", "correct", "incorrect"
    should_end,     \* local should_end
    runner_pc,      \* position of GameRunner.play()
    game_result,    \* << >> while play() runs, <<GameResult>> once it has returned
    runner_calls,   \* history of the agent calls play() has made
    \* ---- HostRuleBased (agents/host.py)
    rb_kb,          \* HostRuleBased.kb
    topic_object_id, \* HostRuleBased.topic_object_id
    rb_pc,          \* "setup", "ready", or "raised" once answer() has raised
    rb_log,         \* history of the answer() calls
    \* ---- run_many_concurrent (experiments/runner.py)
    n_games,        \* argument n_games
    concurrency,    \* argument concurrency
    futures,        \* futures[i]: state and outcome of the i-th submitted run_one
    collected,      \* the futures as_completed has yielded so far, in order
    results,        \* local results
    files,          \* files[k]: content of game_{k-1:04d}.json in out_dir
    metrics,        \* << >>, or <<content of metrics.json>>
    batch_pc        \* position of run_many_concurrent

engineVars == <<max_turns, events, pc, turn, used, payload, returned, calls>>
guesserVars == <<kb, candidate_ids, asked_attribute_ids, constraints, tau, index, questions, last>>
llmVars == <<max_retries, max_repairs, messages_effective, request, attempts, last_text,
             repair_idx, resp, attempt, llm_pc, outcome, oracle_log>>
runnerVars == <<host_topic, runner_max_turns, conversation, topic_revealed, turn_index,
                turns_taken, guesser_turn, guess_outcome, should_end, runner_pc,
                game_result, runner_calls>>
hostVars == <<rb_kb, topic_object_id, rb_pc, rb_log>>
batchVars == <<n_games, concurrency, futures, collected, results, files, metrics, batch_pc>>
vars == <<max_turns, events, pc, turn, used, payload, returned, calls,
          kb, candidate_ids, asked_attribute_ids, constraints, tau, index, questions, last,
          max_retries, max_repairs, messages_effective, request, attempts, last_text,
          repair_idx, resp, attempt, llm_pc, outcome, oracle_log,
          host_topic, runner_max_turns, conversation, topic_revealed, turn_index,
          turns_taken, guesser_turn, guess_outcome, should_end, runner_pc,
          game_result, runner_calls,
          rb_kb, topic_object_id, rb_pc, rb_log,
          n_games, concurrency, futures, collected, results, files, metrics, batch_pc>>

(***************************************************************************)
(* Bounds                                                                  *)
(***************************************************************************)
MaxTurns == 3
MaxQuestions == 3   \* should_guess is called with questions_used in 0..MaxQuestions
MaxRetries == 2     \* LLMClient.max_retries ranges over 0..MaxRetries
MaxRepairs == 2     \* structured_call is called with max_repairs in 0..MaxRepairs
MaxCount == 3       \* entropy_from_counts is called with counts in 0..MaxCount

\* GameConfig.max_turns: int = 20
DefaultMaxTurns == 20

(***************************************************************************)
(* Python values                                                           *)
(***************************************************************************)
None == << >>
Some(d) == <<d>>
PyNone == "<None>"          \* None stored as a dict value
EmptyDict == {}

HasKey(d, k) == \E p \in d : p[1] = k
\* dict.get(k, default)
Get(d, k, default) == IF HasKey(d, k) THEN (CHOOSE p \in d : p[1] = k)[2] ELSE default
\* `not x` for an Optional[Dict]: None and the empty dict are falsy
Falsy(opt) == opt = None \/ opt[1] = EmptyDict
\* (d.get(k) or "")
GetOrEmpty(d, k) == LET v == Get(d, k, PyNone) IN IF v = PyNone THEN "" ELSE v
\* str(d.get("question_text", ""))
QuestionText(d) ==
    LET v == Get(d, "question_text", "") IN IF v = PyNone THEN "None" ELSE v

(***************************************************************************)
(* Actions (engine/types.py) as dicts                                      *)
(***************************************************************************)
YesNo == {"yes", "no", "unknown"}

GuesserAskQuestion(question_text, attribute_id) ==
    {<<"type", "ask_question">>, <<"question_text", question_text>>,
     <<"attribute_id", attribute_id>>}

GuesserMakeGuess(object_id, object_name) ==
    {<<"type", "make_guess">>, <<"object_id", object_id>>,
     <<"object_name", object_name>>}

HostAnswerYesNo(answer) ==
    {<<"type", "answer_yes_no">>, <<"answer", answer>>}

Event(t, agent, action) == [turn |-> t, agent |-> agent, action |-> action]

(***************************************************************************)
(* What the six callbacks of an arbitrary Guesser / Host may return        *)
(***************************************************************************)
AskReturns ==
    { None, Some(EmptyDict),
      Some(GuesserAskQuestion("Is it an animal?", "is_animal")),
      Some({<<"type", "ask_question">>}) }

GuessReturns ==
    { None, Some(EmptyDict),
      Some(GuesserMakeGuess("apple", "Apple")),
      Some(GuesserMakeGuess(PyNone, "Apple")),
      Some(GuesserMakeGuess("", "")),
      Some({<<"type", "make_guess">>}) }

AnswerReturns == { HostAnswerYesNo(a) : a \in YesNo }

(***************************************************************************)
(* GameEngine.play()                                                       *)
(***************************************************************************)
Call(fn, arg, ret) == [fn |-> fn, turn |-> turn, arg |-> arg, ret |-> ret]

Return(dict) ==
    /\ returned' = <<dict>>
    /\ pc' = "done"

\* mutant: the loop runs one turn too many
ShouldGuess_OffByOne(b) ==
    /\ pc = "should_guess"
    /\ turn <= max_turns + 1
    /\ calls' = Append(calls, Call("should_guess_fn", <<used, max_turns>>, b))
    /\ pc' = IF b THEN "make_guess" ELSE "ask"
    /\ UNCHANGED <<max_turns, events, turn, used, payload, returned>>

\* for turn in range(1, max_turns + 1): the loop body is entered
\* if self.should_guess_fn(used, self.config.max_turns):
ShouldGuess(b) ==
    /\ pc = "should_guess"
    /\ turn <= max_turns
    /\ calls' = Append(calls, Call("should_guess_fn", <<used, max_turns>>, b))
    /\ pc' = IF b THEN "make_guess" ELSE "ask"
    /\ UNCHANGED <<max_turns, events, turn, used, payload, returned>>

\* mutant: the object_name is preferred to the object_id
GuessIdentifier_NameFirst(g) ==
    LET oid == GetOrEmpty(g, "object_id")
        name == GetOrEmpty(g, "object_name")
    IN  IF name # "" THEN name ELSE oid

\* The guess branch, lines 48-73 and again 82-106: the event is appended,
\* used is incremented, and the identifier to check is picked; with neither
\* an object_id nor an object_name success stays False and play() returns.
GuessIdentifier(g) ==
    LET oid == GetOrEmpty(g, "object_id")
        name == GetOrEmpty(g, "object_name")
    IN  IF oid # "" THEN oid ELSE name

\* mutant: the guess is recorded but not counted in `used`
RecordGuess_NoCount(g) ==
    /\ events' = Append(events, Event(turn, "guesser", g[1]))
    /\ used' = used
    /\ payload' = g
    /\ IF GuessIdentifier(g[1]) # ""
       THEN /\ pc' = "check_guess"
            /\ UNCHANGED returned
       ELSE Return([result |-> "lose", turns_used |-> used,
                    guess |-> g[1], events |-> Append(events, Event(turn, "guesser", g[1]))])

RecordGuess(g) ==
    /\ events' = Append(events, Event(turn, "guesser", g[1]))
    /\ used' = used + 1
    /\ payload' = g
    /\ IF GuessIdentifier(g[1]) # ""
       THEN /\ pc' = "check_guess"
            /\ UNCHANGED returned
       ELSE Return([result |-> "lose", turns_used |-> used + 1,
                    guess |-> g[1], events |-> Append(events, Event(turn, "guesser", g[1]))])

\* mutant: without a guess play() falls through to asking a question
MakeGuess_FallsThrough(g) ==
    /\ pc = "make_guess"
    /\ calls' = Append(calls, Call("make_guess_fn", << >>, g))
    /\ IF Falsy(g)
       THEN /\ pc' = "ask"
            /\ UNCHANGED <<events, used, payload, returned>>
       ELSE RecordGuess(g)
    /\ UNCHANGED <<max_turns, turn>>

\* guess_payload = self.make_guess_fn() after should_guess_fn returned True
MakeGuess(g) ==
    /\ pc = "make_guess"
    /\ calls' = Append(calls, Call("make_guess_fn", << >>, g))
    /\ IF Falsy(g)
       THEN /\ Return([result |-> "error", reason |-> "no_guess_available"])
            /\ UNCHANGED <<events, used, payload>>
       ELSE RecordGuess(g)
    /\ UNCHANGED <<max_turns, turn>>

\* mutant: a rejected guess does not end the game, play() goes on asking
CheckGuess_RetryOnMiss(b) ==
    /\ pc = "check_guess"
    /\ calls' = Append(calls, Call("check_guess_fn", <<GuessIdentifier(payload[1])>>, b))
    /\ IF b
       THEN /\ Return([result |-> "win", turns_used |-> used,
                       guess |-> payload[1], events |-> events])
            /\ UNCHANGED <<turn, payload>>
       ELSE /\ turn' = turn + 1
            /\ payload' = None
            /\ pc' = "should_guess"
            /\ UNCHANGED returned
    /\ UNCHANGED <<max_turns, events, used>>

\* success = self.check_guess_fn(oid) / self.check_guess_fn(name); return
CheckGuess(b) ==
    /\ pc = "check_guess"
    /\ calls' = Append(calls, Call("check_guess_fn", <<GuessIdentifier(payload[1])>>, b))
    /\ Return([result |-> IF b THEN "win" ELSE "lose", turns_used |-> used,
               guess |-> payload[1], events |-> events])
    /\ UNCHANGED <<max_turns, events, turn, used, payload>>

\* ask_payload = self.ask_fn(); a question is recorded and counted
Ask(q) ==
    /\ pc = "ask"
    /\ calls' = Append(calls, Call("ask_fn", << >>, q))
    /\ IF Falsy(q)
       THEN /\ pc' = "fallback_guess"
            /\ UNCHANGED <<events, used, payload>>
       ELSE /\ events' = Append(events, Event(turn, "guesser", q[1]))
            /\ used' = used + 1
            /\ payload' = q
            /\ pc' = "answer"
    /\ UNCHANGED <<max_turns, turn, returned>>

\* mutant: the fallback reports the reason of the other error return
FallbackGuess_WrongReason(g) ==
    /\ pc = "fallback_guess"
    /\ calls' = Append(calls, Call("make_guess_fn", << >>, g))
    /\ IF Falsy(g)
       THEN /\ Return([result |-> "error", reason |-> "no_guess_available"])
            /\ UNCHANGED <<events, used, payload>>
       ELSE RecordGuess(g)
    /\ UNCHANGED <<max_turns, turn>>

\* mutant: the fallback guess is asked for but never used
FallbackGuess_GivesUp(g) ==
    /\ pc = "fallback_guess"
    /\ calls' = Append(calls, Call("make_guess_fn", << >>, g))
    /\ Return([result |-> "error", reason |-> "no_questions_and_no_guess"])
    /\ UNCHANGED <<max_turns, turn, events, used, payload>>

\* if not ask_payload: guess_payload = self.make_guess_fn()
FallbackGuess(g) ==
    /\ pc = "fallback_guess"
    /\ calls' = Append(calls, Call("make_guess_fn", << >>, g))
    /\ IF Falsy(g)
       THEN /\ Return([result |-> "error", reason |-> "no_questions_and_no_guess"])
            /\ UNCHANGED <<events, used, payload>>
       ELSE RecordGuess(g)
    /\ UNCHANGED <<max_turns, turn>>

\* mutant: the answer is handed to update_fn without being recorded
Answer_Unrecorded(a) ==
    /\ pc = "answer"
    /\ calls' = Append(calls, Call("answer_fn", <<QuestionText(payload[1])>>, a))
    /\ payload' = Some(a)
    /\ pc' = "update"
    /\ UNCHANGED <<max_turns, events, turn, used, returned>>

\* answer_payload = self.answer_fn(q_text); the host event is recorded
Answer(a) ==
    /\ pc = "answer"
    /\ calls' = Append(calls, Call("answer_fn", <<QuestionText(payload[1])>>, a))
    /\ events' = Append(events, Event(turn, "host", a))
    /\ payload' = Some(a)
    /\ pc' = "update"
    /\ UNCHANGED <<max_turns, turn, used, returned>>

\* self.update_fn(answer_payload); the for loop moves to the next turn
Update ==
    /\ pc = "update"
    /\ calls' = Append(calls, Call("update_fn", <<payload[1]>>, None))
    /\ payload' = None
    /\ turn' = turn + 1
    /\ pc' = "should_guess"
    /\ UNCHANGED <<max_turns, events, used, returned>>

\* mutant: running out of turns is reported as an error
BudgetExhausted_Error ==
    /\ pc = "should_guess"
    /\ turn > max_turns
    /\ Return([result |-> "error", reason |-> "max_turns_exhausted"])
    /\ UNCHANGED <<max_turns, events, turn, used, payload, calls>>

\* the for loop is exhausted: "If loop ends, no win"
BudgetExhausted ==
    /\ pc = "should_guess"
    /\ turn > max_turns
    /\ Return([result |-> "lose", turns_used |-> used, events |-> events])
    /\ UNCHANGED <<max_turns, events, turn, used, payload, calls>>

\* GameEngine.__init__ followed by the entry of play()
InitEngine ==
    /\ max_turns \in 0..MaxTurns
    /\ events = << >>
    /\ pc = "should_guess"
    /\ turn = 1
    /\ used = 0
    /\ payload = None
    /\ returned = << >>
    /\ calls = << >>

(***************************************************************************)
(* Knowledge Base (kb/kb.py).  Attribute values are Python bools ("True",  *)
(* "False") or enum strings; an object may omit an attribute.              *)
(***************************************************************************)
PyBool(b) == IF b THEN "True" ELSE "False"

Attribute(id, name, kind) == [id |-> id, name |-> name, kind |-> kind]
ObjectItem(id, name, attributes) == [id |-> id, name |-> name, attributes |-> attributes]

\* ObjectKB.from_seed()
SeedKB ==
    [attributes |-> <<
        Attribute("is_animal", "Is an animal", "boolean"),
        Attribute("is_fruit", "Is a fruit", "boolean"),
        Attribute("is_electronic", "Is electronic", "boolean"),
        Attribute("size", "Size", "enum"),
        Attribute("habitat", "Habitat", "enum") >>,
     objects |-> <<
        ObjectItem("apple", "Apple",
            {<<"is_animal", "False">>, <<"is_fruit", "True">>, <<"is_electronic", "False">>,
             <<"size", "small">>, <<"habitat", "land">>}),
        ObjectItem("eagle", "Eagle",
            {<<"is_animal", "True">>, <<"is_fruit", "False">>, <<"is_electronic", "False">>,
             <<"size", "medium">>, <<"habitat", "air">>}),
        ObjectItem("laptop", "Laptop",
            {<<"is_animal", "False">>, <<"is_fruit", "False">>, <<"is_electronic", "True">>,
             <<"size", "medium">>, <<"habitat", "land">>}),
        ObjectItem("whale", "Whale",
            {<<"is_animal", "True">>, <<"is_fruit", "False">>, <<"is_electronic", "False">>,
             <<"size", "large">>, <<"habitat", "water">>}) >>]

\* Other Knowledge Bases ObjectKB(attributes, objects) can be built with:
\* three objects, two boolean attributes around an enum one; every object
\* records True, False or nothing for b1, and o1, o2, o3 record True,
\* nothing and False for b2.
SmallAttributes ==
    << Attribute("b1", "Big", "boolean"),
       Attribute("e1", "Size", "enum"),
       Attribute("b2", "Blue", "boolean") >>

BoolChoices(a) == { {}, {<<a, "True">>}, {<<a, "False">>} }

SmallKBs ==
    { [attributes |-> SmallAttributes,
       objects |-> << ObjectItem("o1", "O1", x1 \cup y1 \cup {<<"e1", "small">>}),
                      ObjectItem("o2", "O2", x2 \cup y2 \cup {<<"e1", "large">>}),
                      ObjectItem("o3", "O3", x3 \cup y3) >>] :
        x1 \in BoolChoices("b1"), x2 \in BoolChoices("b1"), x3 \in BoolChoices("b1"),
        y1 \in {{<<"b2", "True">>}}, y2 \in {{}}, y3 \in {{<<"b2", "False">>}} }

KBs == {SeedKB} \cup SmallKBs

Range(seq) == { seq[i] : i \in 1..Len(seq) }

\* self.attr_by_id.get(id) / self.obj_by_id[id]
attr_by_id(k, id) ==
    IF \E a \in Range(k.attributes) : a.id = id
    THEN Some(CHOOSE a \in Range(k.attributes) : a.id = id)
    ELSE None
obj_by_id(k, id) == CHOOSE o \in Range(k.objects) : o.id = id

\* ObjectKB.filter_objects(constraints): the objects that carry every constrained
\* value, in KB order
RECURSIVE FilterObjects(_, _)
FilterObjects(objects, cons) ==
    IF objects = << >> THEN << >>
    ELSE LET obj == Head(objects)
             rest == FilterObjects(Tail(objects), cons)
         IN  IF \A c \in cons : Get(obj.attributes, c[1], PyNone) = c[2]
             THEN <<obj>> \o rest
             ELSE rest
filter_objects(k, cons) == FilterObjects(k.objects, cons)

(***************************************************************************)
(* AttributeIndex (kb/index.py)                                            *)
(***************************************************************************)
\* mutant: an object that omits the attribute is filed under False
RECURSIVE Bucket_MissingAsFalse(_, _, _)
Bucket_MissingAsFalse(objects, attr_id, value) ==
    IF objects = << >> THEN << >>
    ELSE LET o == Head(objects)
             rest == Bucket_MissingAsFalse(Tail(objects), attr_id, value)
         IN  IF <<attr_id, Get(o.attributes, attr_id, "False")>> = <<attr_id, value>>
             THEN <<o.id>> \o rest ELSE rest

\* [o.id for o in objects if o.attributes.get(attr_id) == value], in KB order
RECURSIVE Bucket(_, _, _)
Bucket(objects, attr_id, value) ==
    IF objects = << >> THEN << >>
    ELSE LET o == Head(objects)
             rest == Bucket(Tail(objects), attr_id, value)
         IN  IF <<attr_id, value>> \in o.attributes THEN <<o.id>> \o rest ELSE rest

\* AttributeIndex.__init__: index[attr_id][value].append(obj.id)
BuildIndex(k) ==
    LET pairs == UNION { o.attributes : o \in Range(k.objects) }
        attrs == { p[1] : p \in pairs }
    IN  [a \in attrs |->
            [v \in { p[2] : p \in { q \in pairs : q[1] = a } } |->
                Bucket(k.objects, a, v)]]

\* mutant: the bucket is counted whole, the candidates are not consulted
Overlap_IgnoresCandidates(obj_ids, cand) == Len(obj_ids)

\* sum(1 for oid in obj_ids if oid in cand)
RECURSIVE Overlap(_, _)
Overlap(obj_ids, cand) ==
    IF obj_ids = << >> THEN 0
    ELSE (IF Head(obj_ids) \in cand THEN 1 ELSE 0) + Overlap(Tail(obj_ids), cand)

\* AttributeIndex.partition_counts: value -> count, over self.index.get(attr_id, {})
partition_counts(cands, attr_id) ==
    IF attr_id \in DOMAIN index
    THEN [v \in DOMAIN index[attr_id] |-> Overlap(index[attr_id][v], Range(cands))]
    ELSE [v \in {} |-> 0]

Max(a, b) == IF a >= b THEN a ELSE b

\* AttributeIndex.yes_no_partition_counts with yes_value=True, no_value=False
yes_no_partition_counts(cands, attr_id) ==
    LET counts == partition_counts(cands, attr_id)
        yes == IF "True" \in DOMAIN counts THEN counts["True"] ELSE 0
        no == IF "False" \in DOMAIN counts THEN counts["False"] ELSE 0
        unknown == Max(0, Len(cands) - yes - no)
    IN  <<yes, no, unknown>>

\* mutant: a zero count is not skipped, its term is taken like any other
RECURSIVE Weight_ZeroNotSkipped(_)
Weight_ZeroNotSkipped(counts) ==
    IF counts = << >> THEN 1
    ELSE (IF Head(counts) < 0 THEN 1 ELSE Head(counts) ^ (Head(counts) + 1))
         * Weight_ZeroNotSkipped(Tail(counts))

\* AttributeIndex.entropy_from_counts.  With total = sum(counts) > 0 the
\* entropy is  log2(total) - log2(W) / total  for  W = product of c^c over the
\* positive counts c, so it is kept as the exact pair [total, weight |-> W]:
\* zero when W = total^total (one bucket holds everything) or total = 0.
RECURSIVE Weight(_)
Weight(counts) ==
    IF counts = << >> THEN 1
    ELSE (IF Head(counts) <= 0 THEN 1 ELSE Head(counts) ^ Head(counts)) * Weight(Tail(counts))

RECURSIVE Sum(_)
Sum(counts) == IF counts = << >> THEN 0 ELSE Head(counts) + Sum(Tail(counts))

entropy_from_counts(counts) == [total |-> Sum(counts), weight |-> Weight(counts)]

\* a.total = b.total whenever both come from one candidate list; then
\* entropy a > entropy b  iff  W_a < W_b   (total = 0: both are 0.0)
EntropyGreater(a, b) ==
    /\ a.total > 0
    /\ a.total = b.total
    /\ a.weight < b.weight

expected_entropy_yes_no(cands, attr_id) ==
    entropy_from_counts(yes_no_partition_counts(cands, attr_id))

(***************************************************************************)
(* GuesserEntropy (agents/guesser.py)                                      *)
(***************************************************************************)
\* dict[k] = v
DictSet(d, k, v) == { p \in d : p[1] # k } \cup {<<k, v>>}

\* GuesserEntropy._boolean_attribute_ids
RECURSIVE BooleanIds(_)
BooleanIds(attributes) ==
    IF attributes = << >> THEN << >>
    ELSE (IF Head(attributes).kind = "boolean" THEN <<Head(attributes).id>> ELSE << >>)
         \o BooleanIds(Tail(attributes))
_boolean_attribute_ids == BooleanIds(kb.attributes)

\* mutant: the asked-attribute set is not consulted
NotAsked_Forgotten(a_id) == TRUE

NotAsked(a_id) == a_id \notin asked_attribute_ids

\* mutant: a later attribute with an equal score replaces the best so far
RECURSIVE BestOf_LastOnTies(_, _)
BestOf_LastOnTies(candidates, best) ==
    IF candidates = << >> THEN best
    ELSE LET a_id == Head(candidates)
             score == expected_entropy_yes_no(candidate_ids, a_id)
         IN  IF best = << >> \/ ~EntropyGreater(best[1].score, score)
             THEN BestOf_LastOnTies(Tail(candidates), <<[attr |-> a_id, score |-> score]>>)
             ELSE BestOf_LastOnTies(Tail(candidates), best)

\* the loop of select_next_attribute: best is << >> while best_score = -1.0,
\* which every score exceeds, and <<[attr, score]>> afterwards
RECURSIVE BestOf(_, _)
BestOf(candidates, best) ==
    IF candidates = << >> THEN best
    ELSE LET a_id == Head(candidates)
             score == expected_entropy_yes_no(candidate_ids, a_id)
         IN  IF best = << >> \/ EntropyGreater(score, best[1].score)
             THEN BestOf(Tail(candidates), <<[attr |-> a_id, score |-> score]>>)
             ELSE BestOf(Tail(candidates), best)

\* GuesserEntropy.select_next_attribute: Optional[str]
select_next_attribute ==
    LET candidates == SelectSeq(_boolean_attribute_ids, NotAsked)
    IN  IF candidates = << >> THEN None
        ELSE Some(BestOf(candidates, << >>)[1].attr)

\* the default phrasing of next_question: f"Is it {attr.name.lower()}?"
Lower(name) ==
    CASE name = "Is an animal" -> "is an animal"
      [] name = "Is a fruit" -> "is a fruit"
      [] name = "Is electronic" -> "is electronic"
      [] name = "Big" -> "big"
      [] name = "Blue" -> "blue"
      [] OTHER -> name
QuestionFor(name) ==
    CASE Lower(name) = "is an animal" -> "Is it is an animal?"
      [] Lower(name) = "is a fruit" -> "Is it is a fruit?"
      [] Lower(name) = "is electronic" -> "Is it is electronic?"
      [] Lower(name) = "big" -> "Is it big?"
      [] Lower(name) = "blue" -> "Is it blue?"
      [] OTHER -> "Is it ?"

\* GuesserEntropy.next_question
next_question ==
    LET attr_id == select_next_attribute
    IN  IF attr_id = None
        THEN /\ last' = [op |-> "next_question", args |-> << >>, ret |-> None]
             /\ UNCHANGED <<asked_attribute_ids, questions>>
        ELSE /\ asked_attribute_ids' = asked_attribute_ids \cup {attr_id[1]}
             /\ questions' = Append(questions, attr_id[1])
             /\ last' = [op |-> "next_question", args |-> << >>,
                         ret |-> Some(GuesserAskQuestion(
                                    QuestionFor(attr_by_id(kb, attr_id[1])[1].name),
                                    attr_id[1]) \cup {<<"confidence", "1.0">>})]

\* mutant: the filter is applied to the whole Knowledge Base again
FilterCandidates_FromKB(ids, attribute_id, expected) ==
    Bucket(kb.objects, attribute_id, PyBool(expected))

\* mutant: an object that records no value for the attribute is kept
RECURSIVE FilterCandidates_KeepMissing(_, _, _)
FilterCandidates_KeepMissing(ids, attribute_id, expected) ==
    IF ids = << >> THEN << >>
    ELSE LET obj == obj_by_id(kb, Head(ids))
             rest == FilterCandidates_KeepMissing(Tail(ids), attribute_id, expected)
         IN  IF Get(obj.attributes, attribute_id, PyBool(expected)) = PyBool(expected)
             THEN <<Head(ids)>> \o rest
             ELSE rest

\* the filter loop of update_with_answer, lines 92-96
RECURSIVE FilterCandidates(_, _, _)
FilterCandidates(ids, attribute_id, expected) ==
    IF ids = << >> THEN << >>
    ELSE LET obj == obj_by_id(kb, Head(ids))
             rest == FilterCandidates(Tail(ids), attribute_id, expected)
         IN  IF Get(obj.attributes, attribute_id, PyNone) = PyBool(expected)
             THEN <<Head(ids)>> \o rest
             ELSE rest

\* mutant: the candidates are filtered but the constraint is not recorded
update_with_answer_Unrecorded(attribute_id, answer) ==
    LET attr == attr_by_id(kb, attribute_id)
    IN  /\ last' = [op |-> "update_with_answer", args |-> <<attribute_id, answer>>, ret |-> None]
        /\ IF attr = None \/ attr[1].kind # "boolean" \/ answer = "unknown"
           THEN UNCHANGED <<candidate_ids, constraints>>
           ELSE LET expected == (answer = "yes")
                IN  /\ constraints' = constraints
                    /\ candidate_ids' = FilterCandidates(candidate_ids, attribute_id, expected)

\* mutant: an answer that is not "yes" is taken as "no", "unknown" included
update_with_answer_UnknownIsNo(attribute_id, answer) ==
    LET attr == attr_by_id(kb, attribute_id)
    IN  /\ last' = [op |-> "update_with_answer", args |-> <<attribute_id, answer>>, ret |-> None]
        /\ IF attr = None \/ attr[1].kind # "boolean"
           THEN UNCHANGED <<candidate_ids, constraints>>
           ELSE LET expected == (answer = "yes")
                IN  /\ constraints' = DictSet(constraints, attribute_id, PyBool(expected))
                    /\ candidate_ids' = FilterCandidates(candidate_ids, attribute_id, expected)

\* mutant: the expected value is inverted, "yes" keeps the False bucket
update_with_answer_Inverted(attribute_id, answer) ==
    LET attr == attr_by_id(kb, attribute_id)
    IN  /\ last' = [op |-> "update_with_answer", args |-> <<attribute_id, answer>>, ret |-> None]
        /\ IF attr = None \/ attr[1].kind # "boolean" \/ answer = "unknown"
           THEN UNCHANGED <<candidate_ids, constraints>>
           ELSE LET expected == (answer # "yes")
                IN  /\ constraints' = DictSet(constraints, attribute_id, PyBool(~expected))
                    /\ candidate_ids' = FilterCandidates(candidate_ids, attribute_id, expected)

\* GuesserEntropy.update_with_answer
update_with_answer(attribute_id, answer) ==
    LET attr == attr_by_id(kb, attribute_id)
    IN  /\ last' = [op |-> "update_with_answer", args |-> <<attribute_id, answer>>, ret |-> None]
        /\ IF attr = None \/ attr[1].kind # "boolean" \/ answer = "unknown"
           THEN UNCHANGED <<candidate_ids, constraints>>
           ELSE LET expected == (answer = "yes")
                IN  /\ constraints' = DictSet(constraints, attribute_id, PyBool(expected))
                    /\ candidate_ids' = FilterCandidates(candidate_ids, attribute_id, expected)

\* 1.0 / max(1, n) >= self._tau, for _tau = tau[1] / tau[2]
PMapAtLeastTau(n) == tau[2] >= tau[1] * Max(1, n)

\* mutant: the single-candidate test is missing, the posterior test decides
should_guess_value_NoSingleton(questions_used, max_questions) ==
    IF PMapAtLeastTau(Len(candidate_ids)) THEN TRUE
    ELSE IF max_questions - questions_used <= 2 /\ Len(candidate_ids) <= 3 THEN TRUE
    ELSE FALSE

\* mutant: the budget test fires with one question left instead of two
should_guess_value_BudgetOffByOne(questions_used, max_questions) ==
    IF Len(candidate_ids) <= 1 THEN TRUE
    ELSE IF PMapAtLeastTau(Len(candidate_ids)) THEN TRUE
    ELSE IF max_questions - questions_used < 2 /\ Len(candidate_ids) <= 3 THEN TRUE
    ELSE FALSE

\* mutant: there is no budget test, only the candidate count and the posterior
should_guess_value_NoBudgetRule(questions_used, max_questions) ==
    IF Len(candidate_ids) <= 1 THEN TRUE
    ELSE IF PMapAtLeastTau(Len(candidate_ids)) THEN TRUE
    ELSE FALSE

\* GuesserEntropy.should_guess, as the value it returns
should_guess_value(questions_used, max_questions) ==
    IF Len(candidate_ids) <= 1 THEN TRUE
    ELSE IF PMapAtLeastTau(Len(candidate_ids)) THEN TRUE
    ELSE IF max_questions - questions_used <= 2 /\ Len(candidate_ids) <= 3 THEN TRUE
    ELSE FALSE

should_guess(questions_used, max_questions) ==
    last' = [op |-> "should_guess", args |-> <<questions_used, max_questions>>,
             ret |-> should_guess_value(questions_used, max_questions)]

\* mutant: a single candidate is not guessed either
make_guess_value_NeedsTwo ==
    IF Len(candidate_ids) <= 1 THEN None
    ELSE LET obj == obj_by_id(kb, candidate_ids[1])
             conf == "1.0/" \o ToString(Len(candidate_ids))
         IN  Some(GuesserMakeGuess(obj.id, obj.name) \cup {<<"confidence", conf>>})

\* GuesserEntropy.make_guess, as the value it returns
make_guess_value ==
    IF candidate_ids = << >> THEN None
    ELSE LET obj == obj_by_id(kb, candidate_ids[1])
             conf == "1.0/" \o ToString(Len(candidate_ids))
         IN  Some(GuesserMakeGuess(obj.id, obj.name) \cup {<<"confidence", conf>>})

make_guess == last' = [op |-> "make_guess", args |-> << >>, ret |-> make_guess_value]

(***************************************************************************)
(* JSON texts, json.loads and validate_json (llm/schema.py)                *)
(***************************************************************************)
\* the contents an oracle response may carry
TextYes == "{\"type\":\"answer_yes_no\",\"answer\":\"yes\",\"consistency_score\":1.0}"
TextNo == "{\"type\":\"answer_yes_no\",\"answer\":\"no\",\"consistency_score\":0.5}"
TextNoPadded == "  {\"type\":\"answer_yes_no\",\"answer\":\"no\",\"consistency_score\":0.5}\n"
TextMaybe == "{\"type\":\"answer_yes_no\",\"answer\":\"maybe\",\"consistency_score\":1.0}"
TextProse == "Yes, it is."

\* str.strip()
Strip(text) == IF text = TextNoPadded THEN TextNo ELSE text

PyException(type, message) == [type |-> type, message |-> message]

\* json.loads(text): the value, or the JSONDecodeError it raises
json_loads(text) ==
    CASE text = TextYes ->
            [ok |-> TRUE, err |-> None,
             value |-> {<<"type", "answer_yes_no">>, <<"answer", "yes">>,
                        <<"consistency_score", "1.0">>}]
      [] text \in {TextNo, TextNoPadded} ->
            [ok |-> TRUE, err |-> None,
             value |-> {<<"type", "answer_yes_no">>, <<"answer", "no">>,
                        <<"consistency_score", "0.5">>}]
      [] text = TextMaybe ->
            [ok |-> TRUE, err |-> None,
             value |-> {<<"type", "answer_yes_no">>, <<"answer", "maybe">>,
                        <<"consistency_score", "1.0">>}]
      [] OTHER ->
            [ok |-> FALSE, value |-> EmptyDict,
             err |-> Some(PyException("JSONDecodeError",
                                      "Expecting value: line 1 column 1 (char 0)"))]

\* engine/validator.py host_action_schema(), the schema of the calls modelled
HostProperties == {"type", "answer", "justification", "consistency_score"}
HostRequired == <<"type", "answer", "consistency_score">>
HostAnswers == {"yes", "no", "unknown"}
NumbersInUnitInterval == {"0.0", "0.5", "1.0"}
\* pretty_compact_schema(host_action_schema())
HostSchemaJson == "{\"title\":\"HostAnswerYesNo\",\"type\":\"object\",\"properties\":{\"type\":{\"title\":\"type\",\"type\":\"string\",\"enum\":[\"answer_yes_no\"]},\"answer\":{\"title\":\"answer\",\"type\":\"string\",\"enum\":[\"yes\",\"no\",\"unknown\"]},\"justification\":{\"anyOf\":[{\"type\":\"null\"},{\"title\":\"justification\",\"type\":\"string\",\"minLength\":0,\"maxLength\":400}]},\"consistency_score\":{\"title\":\"consistency_score\",\"type\":\"number\",\"minimum\":0.0,\"maximum\":1.0}},\"required\":[\"type\",\"answer\",\"consistency_score\"],\"additionalProperties\":false}"

\* the messages of Draft202012Validator(schema).iter_errors(instance)
MissingRequired(instance) ==
    SelectSeq(HostRequired, LAMBDA k : ~HasKey(instance, k))
schema_errors(instance) ==
    [i \in 1..Len(MissingRequired(instance)) |->
        "'" \o MissingRequired(instance)[i] \o "' is a required property"]
    \o (IF \E p \in instance : p[1] \notin HostProperties
        THEN <<"Additional properties are not allowed">> ELSE << >>)
    \o (IF HasKey(instance, "answer") /\ Get(instance, "answer", PyNone) \notin HostAnswers
        THEN <<"'" \o Get(instance, "answer", PyNone)
               \o "' is not one of ['yes', 'no', 'unknown']">> ELSE << >>)
    \o (IF /\ HasKey(instance, "consistency_score")
           /\ Get(instance, "consistency_score", PyNone) \notin NumbersInUnitInterval
        THEN <<"consistency_score is not a number of [0.0, 1.0]">> ELSE << >>)
    \o (IF HasKey(instance, "type") /\ Get(instance, "type", PyNone) # "answer_yes_no"
        THEN <<"'" \o Get(instance, "type", PyNone)
               \o "' is not one of ['answer_yes_no']">> ELSE << >>)

\* "; ".join(messages)
RECURSIVE Join(_)
Join(msgs) ==
    IF Len(msgs) = 0 THEN ""
    ELSE IF Len(msgs) = 1 THEN msgs[1]
    ELSE msgs[1] \o "; " \o Join(Tail(msgs))

\* validate_json(instance, schema): None, or the ValidationError it raises
validate_json(instance) ==
    IF schema_errors(instance) = << >> THEN None
    ELSE Some(PyException("ValidationError", Join(schema_errors(instance))))

\* mutant: the parsed value is returned without validate_json
TryParse_NoValidation(text) == json_loads(text)

\* the try block of the repair loop: json.loads, then validate_json
TryParse(text) ==
    LET parsed == json_loads(text)
    IN  IF ~parsed.ok THEN parsed
        ELSE IF validate_json(parsed.value) = None THEN parsed
        ELSE [ok |-> FALSE, value |-> EmptyDict, err |-> validate_json(parsed.value)]

(***************************************************************************)
(* The oracle (chat.completions.create) and the conversation               *)
(***************************************************************************)
Usage(p, c) == [prompt_tokens |-> p, completion_tokens |-> c, total_tokens |-> p + c]
\* what a call of _chat_completion may return
Responses ==
    { [content |-> Some(TextYes), usage |-> Some(Usage(40, 12))],
      [content |-> Some(TextNoPadded), usage |-> None],
      [content |-> Some(TextMaybe), usage |-> Some(Usage(40, 12))],
      [content |-> Some(TextProse), usage |-> None],
      [content |-> None, usage |-> None] }
\* the n-th oracle invocation raises: a fresh exception object
OracleError(n) == [type |-> "Exception", raised_by |-> n]
\* (choice.message.content or "")
ContentOrEmpty(r) == IF r.content = None THEN "" ELSE r.content[1]

Message(role, content) == [role |-> role, content |-> content]
JsonOnlyMessage ==
    Message("system", "Respond in json only. Return a single minified json object strictly matching the provided schema.")
\* the message lists structured_call is given
Prompts ==
    { << Message("system", "Return ONLY a compact JSON object matching the given schema."),
         Message("user", "Topic: apple. Question: Is it a fruit?") >>,
      << Message("user", "Topic: apple. Question: Is it a fruit?") >> }
\* "json" in (m.get("content") or "").lower()
MentionsJson(content) ==
    content \in { "Return ONLY a compact JSON object matching the given schema.",
                  JsonOnlyMessage.content }
_contains_json_word(msgs) == \E i \in DOMAIN msgs : MentionsJson(msgs[i].content)

repair_msg(err) ==
    Message("system",
            "Your last output could not be parsed/validated. Fix the issues below and return ONLY a compact json object that strictly matches the schema.\nError: "
            \o err \o "\nSchema: " \o HostSchemaJson)

LLMClientError(err) ==
    [type |-> "LLMClientError",
     message |-> "Structured output failed after repairs: " \o err.message,
     cause |-> err]

\* LLMResponseMeta(...) of the return statement
ResponseMeta ==
    [model |-> "gpt-4o-mini",
     temperature |-> "0.0",
     usage_prompt_tokens |->
        IF resp[1].usage = None THEN None ELSE Some(resp[1].usage[1].prompt_tokens),
     usage_completion_tokens |->
        IF resp[1].usage = None THEN None ELSE Some(resp[1].usage[1].completion_tokens),
     usage_total_tokens |->
        IF resp[1].usage = None THEN None ELSE Some(resp[1].usage[1].total_tokens),
     attempts |-> attempts,
     raw_text |-> last_text]

(***************************************************************************)
(* retry_call (llm/retry.py) and LLMClient.structured_call (llm/client.py) *)
(***************************************************************************)
\* retry_call's defaults, in milliseconds
BackoffBaseMs == 500
BackoffMultiplier == 2
MaxBackoffMs == 8000
\* delay = min(backoff_base_seconds * backoff_multiplier ** attempt, max_backoff_seconds);
\* the sleep lasts delay * jitter for a random jitter of [0.85, 1.15]
Delay(a) ==
    IF BackoffBaseMs * BackoffMultiplier ^ a <= MaxBackoffMs
    THEN BackoffBaseMs * BackoffMultiplier ^ a ELSE MaxBackoffMs

LogCall(out) == [ev |-> "call", round |-> attempts + 1, request |-> request, out |-> out]
LogSleep(ms) == [ev |-> "sleep", round |-> attempts + 1, request |-> request,
                 out |-> [kind |-> "slept", ms |-> ms]]

\* LLMClient(...): max_retries is set, no call is running
InitLLM ==
    /\ max_retries \in 0..MaxRetries
    /\ max_repairs = 0
    /\ messages_effective = << >>
    /\ request = << >>
    /\ attempts = 0
    /\ last_text = ""
    /\ repair_idx = 0
    /\ resp = None
    /\ attempt = 0
    /\ llm_pc = "ready"
    /\ outcome = None
    /\ oracle_log = << >>

\* structured_call, lines 88-110: the locals, messages_effective and the
\* entry into the first retry_call
StructuredCall(msgs, reps) ==
    /\ llm_pc = "ready"
    /\ max_repairs' = reps
    /\ attempts' = 0
    /\ last_text' = ""
    /\ messages_effective' =
          IF _contains_json_word(msgs) THEN msgs ELSE Append(msgs, JsonOnlyMessage)
    /\ request' = messages_effective'
    /\ attempt' = 0
    /\ llm_pc' = "call"
    /\ UNCHANGED <<max_retries, repair_idx, resp, outcome, oracle_log>>

\* mutant: attempts counts the first round only
OracleReturns_AttemptsOnce(r) ==
    /\ llm_pc = "call"
    /\ oracle_log' = Append(oracle_log, LogCall([kind |-> "response", resp |-> r]))
    /\ resp' = Some(r)
    /\ attempts' = 1
    /\ last_text' = Strip(ContentOrEmpty(r))
    /\ repair_idx' = IF attempts = 0 THEN 0 ELSE repair_idx + 1
    /\ llm_pc' = "parse"
    /\ UNCHANGED <<max_retries, max_repairs, messages_effective, request, attempt, outcome>>

\* func() returns inside retry_call: retry_call returns the response, and
\* structured_call counts the attempt and takes the text (lines 114-116,
\* 150-152); after a repair round the loop moves to the next repair_idx
OracleReturns(r) ==
    /\ llm_pc = "call"
    /\ oracle_log' = Append(oracle_log, LogCall([kind |-> "response", resp |-> r]))
    /\ resp' = Some(r)
    /\ attempts' = attempts + 1
    /\ last_text' = Strip(ContentOrEmpty(r))
    /\ repair_idx' = IF attempts = 0 THEN 0 ELSE repair_idx + 1
    /\ llm_pc' = "parse"
    /\ UNCHANGED <<max_retries, max_repairs, messages_effective, request, attempt, outcome>>

\* mutant: retry_call never gives up
RetriesExhausted_Never == FALSE

\* mutant: one retry more than max_retries
RetriesExhausted_OneMore == attempt > max_retries

\* retry_call: if attempt >= max_retries: raise
RetriesExhausted == attempt >= max_retries

\* func() raises inside retry_call: the exception is re-raised, through
\* structured_call, when the retries are used up; otherwise a sleep follows
OracleRaises ==
    /\ llm_pc = "call"
    /\ LET exc == OracleError(Len(oracle_log) + 1)
       IN  /\ oracle_log' = Append(oracle_log, LogCall([kind |-> "raise", exc |-> exc]))
           /\ IF RetriesExhausted
              THEN /\ llm_pc' = "raised"
                   /\ outcome' = Some([kind |-> "raise", exc |-> exc])
              ELSE /\ llm_pc' = "sleep"
                   /\ UNCHANGED outcome
    /\ UNCHANGED <<max_retries, max_repairs, messages_effective, request, attempts,
                   last_text, repair_idx, resp, attempt>>

\* mutant: a retry is counted as an attempt of structured_call
Sleep_CountsAttempt ==
    /\ llm_pc = "sleep"
    /\ oracle_log' = Append(oracle_log, LogSleep(Delay(attempt)))
    /\ attempt' = attempt + 1
    /\ attempts' = attempts + 1
    /\ llm_pc' = "call"
    /\ UNCHANGED <<max_retries, max_repairs, messages_effective, request,
                   last_text, repair_idx, resp, outcome>>

\* retry_call: time.sleep(delay * jitter); attempt += 1; and round the loop
Sleep ==
    /\ llm_pc = "sleep"
    /\ oracle_log' = Append(oracle_log, LogSleep(Delay(attempt)))
    /\ attempt' = attempt + 1
    /\ llm_pc' = "call"
    /\ UNCHANGED <<max_retries, max_repairs, messages_effective, request, attempts,
                   last_text, repair_idx, resp, outcome>>

\* mutant: the repairs are given up one round early
RepairsExhausted_OneShort == repair_idx + 1 >= max_repairs

\* mutant: one repair round more than max_repairs
RepairsExhausted_OneMore == repair_idx >= max_repairs + 1

\* if repair_idx >= max_repairs: raise LLMClientError
RepairsExhausted == repair_idx >= max_repairs

\* mutant: a repair round goes on with the retries the rounds before left
ParseAndValidate_SharedBudget ==
    /\ llm_pc = "parse"
    /\ LET parsed == TryParse(last_text)
       IN  IF parsed.ok
           THEN /\ outcome' = Some([kind |-> "return", parsed |-> parsed.value,
                                    meta |-> ResponseMeta])
                /\ llm_pc' = "returned"
                /\ UNCHANGED <<request, attempt>>
           ELSE IF RepairsExhausted
           THEN /\ outcome' = Some([kind |-> "raise", exc |-> LLMClientError(parsed.err[1])])
                /\ llm_pc' = "raised"
                /\ UNCHANGED <<request, attempt>>
           ELSE /\ request' = Append(messages_effective, repair_msg(parsed.err[1].message))
                /\ llm_pc' = "call"
                /\ UNCHANGED <<outcome, attempt>>
    /\ UNCHANGED <<max_retries, max_repairs, messages_effective, attempts, last_text,
                   repair_idx, resp, oracle_log>>

\* one pass of the repair loop, lines 118-149: return the validated value,
\* or raise LLMClientError, or enter the retry_call of a repair round
ParseAndValidate ==
    /\ llm_pc = "parse"
    /\ LET parsed == TryParse(last_text)
       IN  IF parsed.ok
           THEN /\ outcome' = Some([kind |-> "return", parsed |-> parsed.value,
                                    meta |-> ResponseMeta])
                /\ llm_pc' = "returned"
                /\ UNCHANGED <<request, attempt>>
           ELSE IF RepairsExhausted
           THEN /\ outcome' = Some([kind |-> "raise", exc |-> LLMClientError(parsed.err[1])])
                /\ llm_pc' = "raised"
                /\ UNCHANGED <<request, attempt>>
           ELSE /\ request' = Append(messages_effective, repair_msg(parsed.err[1].message))
                /\ attempt' = 0
                /\ llm_pc' = "call"
                /\ UNCHANGED outcome
    /\ UNCHANGED <<max_retries, max_repairs, messages_effective, attempts, last_text,
                   repair_idx, resp, oracle_log>>

(***************************************************************************)
(* Specifications                                                          *)
(***************************************************************************)
Taus == { <<6, 10>>, <<1, 4>>, <<3, 2>> }

\* ObjectKB(...), AttributeIndex(kb), GuesserEntropy(kb, index, tau)
InitGuesser ==
    /\ kb \in KBs
    /\ index = BuildIndex(kb)
    /\ tau \in Taus
    /\ candidate_ids = [i \in 1..Len(kb.objects) |-> kb.objects[i].id]
    /\ asked_attribute_ids = {}
    /\ constraints = {}
    /\ questions = << >>
    /\ last = [op |-> "init", args |-> << >>, ret |-> None]

\* the engine alone, driven by arbitrary callbacks: no GuesserEntropy is built
IdleGuesser ==
    /\ kb = [attributes |-> << >>, objects |-> << >>]
    /\ index = << >>
    /\ tau = <<6, 10>>
    /\ candidate_ids = << >>
    /\ asked_attribute_ids = {}
    /\ constraints = {}
    /\ questions = << >>
    /\ last = [op |-> "init", args |-> << >>, ret |-> None]

\* no structured_call is made: no LLMClient is built
IdleLLM ==
    /\ max_retries = 0
    /\ max_repairs = 0
    /\ messages_effective = << >>
    /\ request = << >>
    /\ attempts = 0
    /\ last_text = ""
    /\ repair_idx = 0
    /\ resp = None
    /\ attempt = 0
    /\ llm_pc = "idle"
    /\ outcome = None
    /\ oracle_log = << >>

\* no legacy game is played
IdleRunner ==
    /\ host_topic = ""
    /\ runner_max_turns = 0
    /\ conversation = << >>
    /\ topic_revealed = PyNone
    /\ turn_index = 0
    /\ turns_taken = 0
    /\ guesser_turn = None
    /\ guess_outcome = "unknown"
    /\ should_end = FALSE
    /\ runner_pc = "idle"
    /\ game_result = None
    /\ runner_calls = << >>

\* no rule-based host is set up
IdleHost ==
    /\ rb_kb = None
    /\ topic_object_id = ""
    /\ rb_pc = "idle"
    /\ rb_log = << >>

\* no batch of games is run
IdleBatch ==
    /\ n_games = 0
    /\ concurrency = 0
    /\ futures = << >>
    /\ collected = << >>
    /\ results = << >>
    /\ files = << >>
    /\ metrics = None
    /\ batch_pc = "idle"

\* the guesser alone: no game is being played
IdleEngine ==
    /\ max_turns = MaxTurns
    /\ events = << >>
    /\ pc = "idle"
    /\ turn = 1
    /\ used = 0
    /\ payload = None
    /\ returned = << >>
    /\ calls = << >>

EngineInit == InitEngine /\ IdleGuesser /\ IdleLLM /\ IdleRunner /\ IdleHost /\ IdleBatch

NextEngine ==
    \/ \E b \in BOOLEAN : ShouldGuess(b) /\ UNCHANGED <<guesserVars, llmVars, runnerVars, hostVars, batchVars>>
    \/ \E g \in GuessReturns : MakeGuess(g) /\ UNCHANGED <<guesserVars, llmVars, runnerVars, hostVars, batchVars>>
    \/ \E b \in BOOLEAN : CheckGuess(b) /\ UNCHANGED <<guesserVars, llmVars, runnerVars, hostVars, batchVars>>
    \/ \E q \in AskReturns : Ask(q) /\ UNCHANGED <<guesserVars, llmVars, runnerVars, hostVars, batchVars>>
    \/ \E g \in GuessReturns : FallbackGuess(g) /\ UNCHANGED <<guesserVars, llmVars, runnerVars, hostVars, batchVars>>
    \/ \E a \in AnswerReturns : Answer(a) /\ UNCHANGED <<guesserVars, llmVars, runnerVars, hostVars, batchVars>>
    \/ Update /\ UNCHANGED <<guesserVars, llmVars, runnerVars, hostVars, batchVars>>
    \/ BudgetExhausted /\ UNCHANGED <<guesserVars, llmVars, runnerVars, hostVars, batchVars>>

SpecEngine == EngineInit /\ [][NextEngine]_vars

GuesserInit == InitGuesser /\ IdleEngine /\ IdleLLM /\ IdleRunner /\ IdleHost /\ IdleBatch

NextQuestion ==
    /\ next_question
    /\ UNCHANGED <<candidate_ids, constraints, kb, index, tau>>
    /\ UNCHANGED <<engineVars, llmVars, runnerVars, hostVars, batchVars>>

UpdateWithAnswer ==
    /\ \E a \in { x.id : x \in Range(kb.attributes) } \cup {"not_in_kb"}, answer \in YesNo :
          update_with_answer(a, answer)
    /\ UNCHANGED <<asked_attribute_ids, questions, kb, index, tau>>
    /\ UNCHANGED <<engineVars, llmVars, runnerVars, hostVars, batchVars>>

ShouldGuessCall ==
    /\ \E questions_used \in 0..MaxQuestions, max_questions \in {MaxQuestions, DefaultMaxTurns} :
          should_guess(questions_used, max_questions)
    /\ UNCHANGED <<candidate_ids, asked_attribute_ids, constraints, questions, kb, index, tau>>
    /\ UNCHANGED <<engineVars, llmVars, runnerVars, hostVars, batchVars>>

MakeGuessCall ==
    /\ make_guess
    /\ UNCHANGED <<candidate_ids, asked_attribute_ids, constraints, questions, kb, index, tau>>
    /\ UNCHANGED <<engineVars, llmVars, runnerVars, hostVars, batchVars>>

NextGuesser ==
    \/ NextQuestion
    \/ UpdateWithAnswer
    \/ ShouldGuessCall
    \/ MakeGuessCall

SpecGuesser == GuesserInit /\ [][NextGuesser]_vars

\* AttributeIndex(kb) alone: no GuesserEntropy is built on it
InitIndex ==
    /\ kb \in KBs
    /\ index = BuildIndex(kb)
    /\ tau = <<6, 10>>
    /\ candidate_ids = << >>
    /\ asked_attribute_ids = {}
    /\ constraints = {}
    /\ questions = << >>
    /\ last = [op |-> "init", args |-> << >>, ret |-> None]

IndexInit == InitIndex /\ IdleEngine /\ IdleLLM /\ IdleRunner /\ IdleHost /\ IdleBatch

\* the ids of the objects of S, in Knowledge Base order
RECURSIVE Restrict(_, _)
Restrict(objects, S) ==
    IF objects = << >> THEN << >>
    ELSE (IF Head(objects).id \in S THEN <<Head(objects).id>> ELSE << >>)
         \o Restrict(Tail(objects), S)
\* the candidate lists the index is queried with
CandidateLists == { Restrict(kb.objects, S) : S \in SUBSET { o.id : o \in Range(kb.objects) } }
AttributeIds == { x.id : x \in Range(kb.attributes) } \cup {"not_in_kb"}
\* the count lists entropy_from_counts is called with
CountLists ==
    {<< >>} \cup { <<c1>> : c1 \in 0..MaxCount }
            \cup { <<c1, c2>> : c1 \in 0..MaxCount, c2 \in 0..MaxCount }
            \cup { <<c1, c2, c3>> : c1 \in 0..MaxCount, c2 \in 0..MaxCount, c3 \in 0..MaxCount }

IndexUnchanged ==
    UNCHANGED <<kb, index, tau, candidate_ids, asked_attribute_ids, constraints, questions,
                engineVars, llmVars, runnerVars, hostVars, batchVars>>

PartitionCounts ==
    /\ \E cands \in CandidateLists, a \in AttributeIds :
          last' = [op |-> "partition_counts", args |-> <<cands, a>>,
                   ret |-> partition_counts(cands, a)]
    /\ IndexUnchanged

YesNoPartitionCounts ==
    /\ \E cands \in CandidateLists, a \in AttributeIds :
          last' = [op |-> "yes_no_partition_counts", args |-> <<cands, a>>,
                   ret |-> yes_no_partition_counts(cands, a)]
    /\ IndexUnchanged

EntropyFromCounts ==
    /\ \E counts \in CountLists :
          last' = [op |-> "entropy_from_counts", args |-> counts,
                   ret |-> entropy_from_counts(counts)]
    /\ IndexUnchanged

ExpectedEntropyYesNo ==
    /\ \E cands \in CandidateLists, a \in AttributeIds :
          last' = [op |-> "expected_entropy_yes_no", args |-> <<cands, a>>,
                   ret |-> expected_entropy_yes_no(cands, a)]
    /\ IndexUnchanged

NextIndex ==
    \/ PartitionCounts
    \/ YesNoPartitionCounts
    \/ EntropyFromCounts
    \/ ExpectedEntropyYesNo

SpecIndex == IndexInit /\ [][NextIndex]_vars

LLMInit == InitLLM /\ IdleEngine /\ IdleGuesser /\ IdleRunner /\ IdleHost /\ IdleBatch

NextLLM ==
    \/ \E msgs \in Prompts, reps \in 0..MaxRepairs :
          StructuredCall(msgs, reps) /\ UNCHANGED <<engineVars, guesserVars, runnerVars, hostVars, batchVars>>
    \/ \E r \in Responses : OracleReturns(r) /\ UNCHANGED <<engineVars, guesserVars, runnerVars, hostVars, batchVars>>
    \/ OracleRaises /\ UNCHANGED <<engineVars, guesserVars, runnerVars, hostVars, batchVars>>
    \/ Sleep /\ UNCHANGED <<engineVars, guesserVars, runnerVars, hostVars, batchVars>>
    \/ ParseAndValidate /\ UNCHANGED <<engineVars, guesserVars, runnerVars, hostVars, batchVars>>

SpecLLM == LLMInit /\ [][NextLLM]_vars

\* structured_call runs in one thread: whenever it has a step to take it takes
\* it, and the oracle call returns or raises (request_timeout_seconds)
SpecLLMFair == LLMInit /\ [][NextLLM]_vars /\ WF_vars(NextLLM)

(***************************************************************************)
(* The legacy GameRunner (src/guesscraft/game.py): play() between a         *)
(* GuesserAgent and a HostAgent.  Both agents are LLM-backed, so each call  *)
(* returns any value of its return type, or raises.                        *)
(***************************************************************************)
\* str.strip().lower() on the texts that occur
Normalize(text) ==
    CASE text = " Koala " -> "koala"
      [] text = "KOALA " -> "koala"
      [] text = "Dog" -> "dog"
      [] text = "Is it furry?" -> "is it furry?"
      [] text = "I am done" -> "i am done"
      [] OTHER -> text

\* Python truthiness of an Optional[str]
Truthy(text) == text # PyNone /\ text # ""

AgentTurn(action, content) == [action |-> action, content |-> content]
HostReply(reply, reveal_topic, topic) ==
    [reply |-> reply, reveal_topic |-> reveal_topic, topic |-> topic]
ConversationEntry(role, content) == [role |-> role, content |-> content]
GameResult(success, turns, transcript, final_topic) ==
    [success |-> success, turns_taken |-> turns, transcript |-> transcript,
     final_topic |-> final_topic]

\* what GuesserAgent.next_action can return
AgentTurns ==
    { AgentTurn("ask", "Is it furry?"), AgentTurn("guess", "KOALA "),
      AgentTurn("guess", "Dog"), AgentTurn("finish", "I am done") }

\* what HostAgent.answer can return
HostReplies ==
    { HostReply("Yes.", FALSE, PyNone),
      HostReply("Correct!", FALSE, "koala"),
      HostReply("It was a koala.", TRUE, "koala"),
      HostReply("It was a wombat.", TRUE, "wombat"),
      HostReply("I will not tell.", TRUE, "") }

Topics == { "koala", " Koala " }

\* GameRunner._evaluate_guess
_evaluate_guess(t) ==
    IF Normalize(t.content) = Normalize(host_topic) THEN "correct" ELSE "incorrect"

\* ConversationLog.append
ConversationAppend(log, role, content) == Append(log, ConversationEntry(role, content))

GiveUp_Silent(log) == log

\* play(), line 69
GiveUp(log) == ConversationAppend(log, "guesser", "I give up.")

\* GameRunner(host, guesser, max_turns) constructed, play() not yet called
InitRunner ==
    /\ host_topic \in Topics
    /\ runner_max_turns \in 0..MaxTurns
    /\ conversation = << >>
    /\ topic_revealed = PyNone
    /\ turn_index = 0
    /\ turns_taken = 0
    /\ guesser_turn = None
    /\ guess_outcome = "unknown"
    /\ should_end = FALSE
    /\ runner_pc = "ready"
    /\ game_result = None
    /\ runner_calls = << >>

RunnerInit == InitRunner /\ IdleEngine /\ IdleGuesser /\ IdleLLM /\ IdleHost /\ IdleBatch

\* play(), lines 35-40: the locals, then the first iteration of the loop or,
\* with an empty range, lines 68-69
RunnerPlay ==
    /\ runner_pc = "ready"
    /\ topic_revealed' = PyNone
    /\ IF runner_max_turns >= 1
       THEN /\ conversation' = << >>
            /\ turn_index' = 1
            /\ turns_taken' = 1
            /\ runner_pc' = "next_turn"
       ELSE /\ conversation' = GiveUp(<< >>)
            /\ turn_index' = 0
            /\ turns_taken' = 0
            /\ runner_pc' = "final_reply"
    /\ UNCHANGED <<host_topic, runner_max_turns, guesser_turn, guess_outcome, should_end,
                   game_result, runner_calls>>

\* play(), lines 41-50: the guesser's turn is logged and evaluated
NextTurn(t) ==
    /\ runner_pc = "next_turn"
    /\ guesser_turn' = Some(t)
    /\ conversation' = ConversationAppend(conversation, "guesser", t.content)
    /\ guess_outcome' = IF t.action = "guess" THEN _evaluate_guess(t) ELSE "unknown"
    /\ should_end' = IF t.action = "guess" THEN _evaluate_guess(t) = "correct"
                     ELSE t.action = "finish"
    /\ runner_calls' = Append(runner_calls,
                          [fn |-> "next_action", turn |-> turn_index, ret |-> t])
    /\ runner_pc' = "host_reply"
    /\ UNCHANGED <<host_topic, runner_max_turns, topic_revealed, turn_index, turns_taken,
                   game_result>>

\* GuesserAgent.next_action raises (invalid JSON, action or utterance)
NextTurnRaises ==
    /\ runner_pc = "next_turn"
    /\ runner_pc' = "raised"
    /\ UNCHANGED <<host_topic, runner_max_turns, conversation, topic_revealed, turn_index,
                   turns_taken, guesser_turn, guess_outcome, should_end, game_result,
                   runner_calls>>

\* play(), lines 52-65 and, once the loop is over, lines 68-69 or 78-83
HostReplyStep(r) ==
    /\ runner_pc = "host_reply"
    /\ runner_calls' = Append(runner_calls,
                          [fn |-> "answer", turn |-> turn_index, latest |-> guesser_turn[1],
                           outcome |-> guess_outcome, ret |-> r])
    /\ LET log == ConversationAppend(conversation, "host", r.reply)
       IN  IF r.reveal_topic /\ Truthy(r.topic)
           THEN /\ conversation' = log
                /\ topic_revealed' = r.topic
                /\ game_result' = Some(GameResult(guess_outcome = "correct", turn_index,
                                                  log, r.topic))
                /\ runner_pc' = "returned"
                /\ UNCHANGED <<turn_index, turns_taken>>
           ELSE IF should_end
           THEN /\ conversation' = log
                /\ topic_revealed' = (IF Truthy(topic_revealed) THEN topic_revealed
                                      ELSE IF Truthy(r.topic) THEN r.topic ELSE "")
                /\ game_result' = Some(GameResult(FALSE,
                                                  IF turns_taken # 0 THEN turns_taken
                                                  ELSE runner_max_turns,
                                                  log, topic_revealed'))
                /\ runner_pc' = "returned"
                /\ UNCHANGED <<turn_index, turns_taken>>
           ELSE IF turn_index < runner_max_turns
           THEN /\ conversation' = log
                /\ turn_index' = turn_index + 1
                /\ turns_taken' = turn_index + 1
                /\ runner_pc' = "next_turn"
                /\ UNCHANGED <<topic_revealed, game_result>>
           ELSE \* the range is used up; topic_revealed is still None (line 68)
                /\ conversation' = GiveUp(log)
                /\ runner_pc' = "final_reply"
                /\ UNCHANGED <<topic_revealed, game_result, turn_index, turns_taken>>
    /\ UNCHANGED <<host_topic, runner_max_turns, guesser_turn, guess_outcome, should_end>>

\* play(), lines 70-83: the host's reply to "I give up."
FinalReply(r) ==
    /\ runner_pc = "final_reply"
    /\ runner_calls' = Append(runner_calls,
                          [fn |-> "answer", turn |-> 0,
                           latest |-> AgentTurn("finish", "I give up."),
                           outcome |-> "incorrect", ret |-> r])
    /\ conversation' = ConversationAppend(conversation, "host", r.reply)
    /\ topic_revealed' = (IF Truthy(r.topic) THEN r.topic ELSE "")
    /\ game_result' = Some(GameResult(FALSE,
                                      IF turns_taken # 0 THEN turns_taken
                                      ELSE runner_max_turns,
                                      conversation', topic_revealed'))
    /\ runner_pc' = "returned"
    /\ UNCHANGED <<host_topic, runner_max_turns, turn_index, turns_taken, guesser_turn,
                   guess_outcome, should_end>>

\* HostAgent.answer raises (invalid JSON)
HostRaises ==
    /\ runner_pc \in {"host_reply", "final_reply"}
    /\ runner_pc' = "raised"
    /\ UNCHANGED <<host_topic, runner_max_turns, conversation, topic_revealed, turn_index,
                   turns_taken, guesser_turn, guess_outcome, should_end, game_result,
                   runner_calls>>

NextRunner ==
    \/ RunnerPlay /\ UNCHANGED <<engineVars, guesserVars, llmVars, hostVars, batchVars>>
    \/ \E t \in AgentTurns : NextTurn(t) /\ UNCHANGED <<engineVars, guesserVars, llmVars, hostVars, batchVars>>
    \/ NextTurnRaises /\ UNCHANGED <<engineVars, guesserVars, llmVars, hostVars, batchVars>>
    \/ \E r \in HostReplies : HostReplyStep(r) /\ UNCHANGED <<engineVars, guesserVars, llmVars, hostVars, batchVars>>
    \/ \E r \in HostReplies : FinalReply(r) /\ UNCHANGED <<engineVars, guesserVars, llmVars, hostVars, batchVars>>
    \/ HostRaises /\ UNCHANGED <<engineVars, guesserVars, llmVars, hostVars, batchVars>>

SpecRunner == RunnerInit /\ [][NextRunner]_vars

(***************************************************************************)
(* HostRuleBased (src/src/agents/host.py)                                  *)
(***************************************************************************)
MaxGames == 3       \* run_many_concurrent is called with n_games in 1..MaxGames

\* the Knowledge Bases a rule-based host is given: the seed one, and one
\* whose objects record no value for b1
HostKBs == {SeedKB} \cup { k \in SmallKBs : \A o \in Range(k.objects) : ~HasKey(o.attributes, "b1") }
ObjectIds(k) == { o.id : o \in Range(k.objects) }
\* what AttributeParser.classify() can return as attribute_id: a known
\* attribute id or None (its schema admits nothing else)
Classifications(k) == { a.id : a \in Range(k.attributes) } \cup {PyNone}

HostPayload(answer, justification, score) ==
    { <<"type", "answer_yes_no">>, <<"answer", answer>>,
      <<"justification", justification>>, <<"consistency_score", score>> }

\* before HostRuleBased(kb, attribute_parser, topic_object_id) is evaluated;
\* the topic is any string, the id of an object of the KB or not
InitHost ==
    /\ rb_kb \in { Some(k) : k \in HostKBs }
    /\ topic_object_id \in UNION { ObjectIds(k) : k \in HostKBs } \cup {"ghost"}
    /\ rb_pc = "setup"
    /\ rb_log = << >>

HostInit == InitHost /\ IdleEngine /\ IdleGuesser /\ IdleLLM /\ IdleRunner /\ IdleBatch

\* the dataclass constructor, lines 12-16: the three fields are stored
ConstructHost ==
    /\ rb_pc = "setup"
    /\ rb_pc' = "ready"
    /\ UNCHANGED <<rb_kb, topic_object_id, rb_log>>

\* mutant: a value the topic does not record is answered no
RuleBasedAnswer_MissingIsNo(attr_id) ==
    /\ rb_pc = "ready"
    /\ Len(rb_log) < MaxQuestions
    /\ LET k == rb_kb[1]
           attr == IF attr_id = PyNone THEN None ELSE attr_by_id(k, attr_id)
           known == topic_object_id \in ObjectIds(k)
           value == Get(obj_by_id(k, topic_object_id).attributes, attr_id, PyNone)
           ret == IF attr_id = PyNone
                  THEN Some(HostPayload("unknown", "unmapped_question", "0.5"))
                  ELSE IF attr = None \/ attr[1].kind # "boolean"
                  THEN Some(HostPayload("unknown", "non_boolean_attribute", "0.5"))
                  ELSE IF ~known
                  THEN None       \* KeyError at line 36
                  ELSE IF value = "True"
                  THEN Some(HostPayload("yes", <<attr_id, "=", value>>, "1.0"))
                  ELSE IF value = "False"
                  THEN Some(HostPayload("no", <<attr_id, "=", value>>, "1.0"))
                  ELSE Some(HostPayload("no", "missing_value", "0.5"))
       IN  /\ rb_log' = Append(rb_log, [attribute_id |-> attr_id, ret |-> ret])
           /\ rb_pc' = IF ret = None THEN "raised" ELSE "ready"
    /\ UNCHANGED <<rb_kb, topic_object_id>>

\* HostRuleBased.answer(question_text), the question being classified as
\* attr_id by the attribute parser, which has a Knowledge Base of its own
RuleBasedAnswer(attr_id) ==
    /\ rb_pc = "ready"
    /\ Len(rb_log) < MaxQuestions
    /\ LET k == rb_kb[1]
           attr == IF attr_id = PyNone THEN None ELSE attr_by_id(k, attr_id)
           known == topic_object_id \in ObjectIds(k)
           value == Get(obj_by_id(k, topic_object_id).attributes, attr_id, PyNone)
           ret == IF attr_id = PyNone
                  THEN Some(HostPayload("unknown", "unmapped_question", "0.5"))
                  ELSE IF attr = None \/ attr[1].kind # "boolean"
                  THEN Some(HostPayload("unknown", "non_boolean_attribute", "0.5"))
                  ELSE IF ~known
                  THEN None       \* KeyError at line 36
                  ELSE IF value = "True"
                  THEN Some(HostPayload("yes", <<attr_id, "=", value>>, "1.0"))
                  ELSE IF value = "False"
                  THEN Some(HostPayload("no", <<attr_id, "=", value>>, "1.0"))
                  ELSE Some(HostPayload("unknown", "missing_value", "0.5"))
       IN  /\ rb_log' = Append(rb_log, [attribute_id |-> attr_id, ret |-> ret])
           /\ rb_pc' = IF ret = None THEN "raised" ELSE "ready"
    /\ UNCHANGED <<rb_kb, topic_object_id>>

\* AttributeParser.classify raises out of answer() (line 19)
ClassifyRaises ==
    /\ rb_pc = "ready"
    /\ rb_pc' = "raised"
    /\ UNCHANGED <<rb_kb, topic_object_id, rb_log>>

NextHost ==
    \/ ConstructHost /\ UNCHANGED <<engineVars, guesserVars, llmVars, runnerVars, batchVars>>
    \/ \E a \in UNION { Classifications(k) : k \in HostKBs } :
          RuleBasedAnswer(a) /\ UNCHANGED <<engineVars, guesserVars, llmVars, runnerVars, batchVars>>
    \/ ClassifyRaises /\ UNCHANGED <<engineVars, guesserVars, llmVars, runnerVars, batchVars>>

SpecHost == HostInit /\ [][NextHost]_vars

(***************************************************************************)
(* run_many_concurrent (src/src/experiments/runner.py)                     *)
(***************************************************************************)
\* what run_one() returns: the engine's result (cli.py:99-102)
GameRecords ==
    { [result |-> "win", turns_used |-> 1], [result |-> "lose", turns_used |-> 2],
      [result |-> "error", reason |-> "no_guess_available"] }

Futures == 1..n_games
Finished(i) == futures[i].state \in {"done", "failed"}
Running == { i \in Futures : futures[i].state = "running" }
Pending == { i \in Futures : futures[i].state = "pending" }

\* r.get("turns_used", 0)
TurnsUsed(r) == IF "turns_used" \in DOMAIN r THEN r.turns_used ELSE 0
RECURSIVE SumTurns(_)
SumTurns(rs) == IF rs = << >> THEN 0 ELSE TurnsUsed(Head(rs)) + SumTurns(Tail(rs))
Wins(rs) == SelectSeq(rs, LAMBDA r : r.result = "win")
\* a / b as the float the code computes, kept as the pair <<a, b>>
Ratio(a, b) == IF b # 0 THEN <<a, b>> ELSE <<0, 1>>

\* aggregate_metrics(results)
aggregate_metrics(rs) ==
    [games |-> Len(rs),
     wins |-> Len(Wins(rs)),
     win_rate |-> Ratio(Len(Wins(rs)), Len(rs)),
     mean_turns |-> Ratio(SumTurns(rs), Len(rs)),
     mean_turns_wins |-> Ratio(SumTurns(Wins(rs)), Len(Wins(rs)))]

\* run_many_concurrent(config_path, n_games, out_dir, concurrency) is called
InitBatch ==
    /\ n_games \in 1..MaxGames
    /\ concurrency \in 0..2
    /\ futures = << >>
    /\ collected = << >>
    /\ results = << >>
    /\ files = << >>
    /\ metrics = None
    /\ batch_pc = "ready"

BatchInit == InitBatch /\ IdleEngine /\ IdleGuesser /\ IdleLLM /\ IdleRunner /\ IdleHost

\* lines 26-30: the pool is created and every game submitted
Submit ==
    /\ batch_pc = "ready"
    /\ futures' = [i \in 1..n_games |-> [state |-> "pending"]]
    /\ batch_pc' = "collect"
    /\ UNCHANGED <<n_games, concurrency, collected, results, files, metrics>>

\* a worker thread of the pool takes the oldest waiting game
WorkerStarts(i) ==
    /\ batch_pc \in {"collect", "unwind"}
    /\ i \in Pending
    /\ \A j \in Pending : i <= j
    /\ Cardinality(Running) < Max(1, concurrency)
    /\ futures' = [futures EXCEPT ![i] = [state |-> "running"]]
    /\ UNCHANGED <<n_games, concurrency, collected, results, files, metrics, batch_pc>>

\* run_one returns in its worker thread
GameReturns(i, rec) ==
    /\ batch_pc \in {"collect", "unwind"}
    /\ i \in Running
    /\ futures' = [futures EXCEPT ![i] = [state |-> "done", result |-> rec]]
    /\ UNCHANGED <<n_games, concurrency, collected, results, files, metrics, batch_pc>>

\* run_one raises in its worker thread: structured_call's LLMClientError
\* passes through answer_fn, GameEngine.play and run_one uncaught
GameRaises(i) ==
    /\ batch_pc \in {"collect", "unwind"}
    /\ i \in Running
    /\ futures' = [futures EXCEPT ![i] = [state |-> "failed"]]
    /\ UNCHANGED <<n_games, concurrency, collected, results, files, metrics, batch_pc>>

\* lines 31-35: as_completed yields a finished future; fut.result() returns
\* the record, which is appended and written, or re-raises the game's error
Collect(i) ==
    /\ batch_pc = "collect"
    /\ i \in Futures
    /\ Finished(i)
    /\ i \notin Range(collected)
    /\ collected' = Append(collected, i)
    /\ IF futures[i].state = "done"
       THEN /\ results' = Append(results, futures[i].result)
            /\ files' = [k \in 1..(Len(collected) + 1) |->
                            IF k = Len(collected) + 1 THEN futures[i].result ELSE files[k]]
            /\ batch_pc' = "collect"
       ELSE /\ batch_pc' = "unwind"
            /\ UNCHANGED <<results, files>>
    /\ UNCHANGED <<n_games, concurrency, futures, metrics>>

\* lines 36-39: every future was collected; the pool is shut down, the
\* metrics are aggregated and written
Aggregate ==
    /\ batch_pc = "collect"
    /\ Range(collected) = Futures
    /\ metrics' = Some(aggregate_metrics(results))
    /\ batch_pc' = "returned"
    /\ UNCHANGED <<n_games, concurrency, futures, collected, results, files>>

\* the error leaves the with block: ThreadPoolExecutor.__exit__ waits for
\* every submitted game, then the error leaves run_many_concurrent
Unwind ==
    /\ batch_pc = "unwind"
    /\ \A i \in Futures : Finished(i)
    /\ batch_pc' = "raised"
    /\ UNCHANGED <<n_games, concurrency, futures, collected, results, files, metrics>>

NextBatch ==
    \/ Submit /\ UNCHANGED <<engineVars, guesserVars, llmVars, runnerVars, hostVars>>
    \/ \E i \in 1..MaxGames : WorkerStarts(i) /\ UNCHANGED <<engineVars, guesserVars, llmVars, runnerVars, hostVars>>
    \/ \E i \in 1..MaxGames, rec \in GameRecords :
          GameReturns(i, rec) /\ UNCHANGED <<engineVars, guesserVars, llmVars, runnerVars, hostVars>>
    \/ \E i \in 1..MaxGames : GameRaises(i) /\ UNCHANGED <<engineVars, guesserVars, llmVars, runnerVars, hostVars>>
    \/ \E i \in 1..MaxGames : Collect(i) /\ UNCHANGED <<engineVars, guesserVars, llmVars, runnerVars, hostVars>>
    \/ Aggregate /\ UNCHANGED <<engineVars, guesserVars, llmVars, runnerVars, hostVars>>
    \/ Unwind /\ UNCHANGED <<engineVars, guesserVars, llmVars, runnerVars, hostVars>>

SpecBatch == BatchInit /\ [][NextBatch]_vars

(***************************************************************************)
(* A game of GameEngine driven by GuesserEntropy: ask_fn, should_guess_fn  *)
(* and make_guess_fn are the guesser's next_question, should_guess and     *)
(* make_guess, the way cli.py wires a guesser to the engine; update_fn     *)
(* hands the host's answer to update_with_answer together with the         *)
(* attribute of the question it answers.  The host knows a secret topic;   *)
(* its answers and its verdict on a guess are arbitrary.                   *)
(***************************************************************************)
GameMaxTurns == 0..MaxTurns \cup {DefaultMaxTurns}

InitGame ==
    /\ InitGuesser
    /\ max_turns \in GameMaxTurns
    /\ events = << >>
    /\ pc = "should_guess"
    /\ turn = 1
    /\ used = 0
    /\ payload = None
    /\ returned = << >>
    /\ calls = << >>
    /\ rb_kb = Some(kb)
    /\ topic_object_id \in ObjectIds(kb) \cup {"ghost"}
    /\ rb_pc = "idle"
    /\ rb_log = << >>
    /\ IdleLLM /\ IdleRunner /\ IdleBatch

\* if self.should_guess_fn(used, self.config.max_turns), with guesser.should_guess
GameShouldGuess ==
    /\ ShouldGuess(should_guess_value(used, max_turns))
    /\ should_guess(used, max_turns)
    /\ UNCHANGED <<kb, candidate_ids, asked_attribute_ids, constraints, tau, index, questions>>
    /\ UNCHANGED <<llmVars, runnerVars, hostVars, batchVars>>

\* guess_payload = self.make_guess_fn(), with guesser.make_guess
GameMakeGuess ==
    /\ MakeGuess(make_guess_value)
    /\ make_guess
    /\ UNCHANGED <<kb, candidate_ids, asked_attribute_ids, constraints, tau, index, questions>>
    /\ UNCHANGED <<llmVars, runnerVars, hostVars, batchVars>>

\* success = self.check_guess_fn(oid)
GameCheckGuess ==
    /\ \E b \in BOOLEAN : CheckGuess(b)
    /\ UNCHANGED <<guesserVars, llmVars, runnerVars, hostVars, batchVars>>

\* ask_payload = self.ask_fn(), with guesser.next_question
GameAsk ==
    /\ next_question
    /\ Ask(last'.ret)
    /\ UNCHANGED <<kb, candidate_ids, constraints, tau, index>>
    /\ UNCHANGED <<llmVars, runnerVars, hostVars, batchVars>>

\* the immediate guess when no question is left, with guesser.make_guess
GameFallbackGuess ==
    /\ FallbackGuess(make_guess_value)
    /\ make_guess
    /\ UNCHANGED <<kb, candidate_ids, asked_attribute_ids, constraints, tau, index, questions>>
    /\ UNCHANGED <<llmVars, runnerVars, hostVars, batchVars>>

\* answer_payload = self.answer_fn(q_text)
GameAnswer ==
    /\ \E a \in AnswerReturns : Answer(a)
    /\ UNCHANGED <<guesserVars, llmVars, runnerVars, hostVars, batchVars>>

\* mutant: the answer is filed under the first question of the game
GameUpdate_FirstQuestion ==
    /\ pc = "update"
    /\ update_with_answer(questions[1], Get(payload[1], "answer", "unknown"))
    /\ Update
    /\ UNCHANGED <<kb, asked_attribute_ids, tau, index, questions>>
    /\ UNCHANGED <<llmVars, runnerVars, hostVars, batchVars>>

\* self.update_fn(answer_payload): guesser.update_with_answer(attribute_id, answer)
\* for the attribute of the question just asked
GameUpdate ==
    /\ pc = "update"
    /\ update_with_answer(questions[Len(questions)], Get(payload[1], "answer", "unknown"))
    /\ Update
    /\ UNCHANGED <<kb, asked_attribute_ids, tau, index, questions>>
    /\ UNCHANGED <<llmVars, runnerVars, hostVars, batchVars>>

GameBudgetExhausted ==
    /\ BudgetExhausted
    /\ UNCHANGED <<guesserVars, llmVars, runnerVars, hostVars, batchVars>>

GameInit == InitGame

NextGame ==
    \/ GameShouldGuess
    \/ GameMakeGuess
    \/ GameCheckGuess
    \/ GameAsk
    \/ GameFallbackGuess
    \/ GameAnswer
    \/ GameUpdate
    \/ GameBudgetExhausted

SpecGame == GameInit /\ [][NextGame]_vars

(***************************************************************************)
(* Vocabulary of the claims about GameEngine.play()                        *)
(***************************************************************************)
Returned == pc = "done"
Result == returned[1]
CallsOf(fn) == { i \in DOMAIN calls : calls[i].fn = fn }
\* the calls in which make_guess_fn produced a guess (which play() records)
GuessCalls == { i \in CallsOf("make_guess_fn") : ~Falsy(calls[i].ret) }
\* the calls in which ask_fn produced a question (which play() records)
QuestionCalls == { i \in CallsOf("ask_fn") : ~Falsy(calls[i].ret) }
LastEvent == events[Len(events)]

\* C1: a guess is terminal.  Once make_guess_fn has produced a guess, after
\* should_guess_fn returned true or as the fallback of an empty ask_fn, its
\* event is the last event of the trace, play() is checking it or has
\* returned win or lose in the turn of the guess, and the only callback
\* called after it is check_guess_fn, once at most.
C1_GuessIsTerminal ==
    \A i \in GuessCalls :
        /\ events # << >>
        /\ LastEvent = Event(calls[i].turn, "guesser", calls[i].ret[1])
        /\ turn = calls[i].turn
        /\ pc \in {"check_guess", "done"}
        /\ Returned =>
              /\ Result.result \in {"win", "lose"}
              /\ Result.guess = calls[i].ret[1]
              /\ Result.events = events
        /\ \A j \in DOMAIN calls : j > i => calls[j].fn = "check_guess_fn"
        /\ Len(calls) <= i + 1

C1_Witness ==
    /\ Returned
    /\ GuessCalls # {}
    /\ Len(events) >= 3
    /\ \E i \in GuessCalls : i > 1 /\ calls[i - 1].fn = "ask_fn"

\* C2: budget exhaustion is an ordinary loss.  If on each of the max_turns
\* turns should_guess_fn returned false and ask_fn returned a question, play()
\* never calls make_guess_fn or check_guess_fn, and when it returns it
\* returns lose with turns_used = max_turns.
AskedEveryTurn ==
    \A t \in 1..max_turns :
        /\ \E i \in CallsOf("should_guess_fn") : calls[i].turn = t /\ calls[i].ret = FALSE
        /\ \E i \in QuestionCalls : calls[i].turn = t

C2_BudgetExhaustionIsLoss ==
    AskedEveryTurn =>
        /\ CallsOf("make_guess_fn") = {}
        /\ CallsOf("check_guess_fn") = {}
        /\ pc \in {"answer", "update", "should_guess", "done"}
        /\ Returned =>
              /\ Result.result = "lose"
              /\ Result.turns_used = max_turns
              /\ "reason" \notin DOMAIN Result

C2_Witness ==
    /\ Returned
    /\ AskedEveryTurn
    /\ max_turns >= 2

\* C3: the turn budget is never exceeded, whatever the callbacks return: at
\* most max_turns questions are asked and answered, used and turns_used are at
\* most max_turns, every event's turn lies in 1..max_turns and the trace
\* holds at most 2 * max_turns events.
C3_TurnBudget ==
    /\ Cardinality(QuestionCalls) <= max_turns
    /\ Cardinality(CallsOf("ask_fn")) <= max_turns
    /\ Cardinality(CallsOf("answer_fn")) <= max_turns
    /\ used <= max_turns
    /\ (Returned /\ "turns_used" \in DOMAIN Result) => Result.turns_used <= max_turns
    /\ \A i \in DOMAIN events : events[i].turn \in 1..max_turns
    /\ Len(events) <= 2 * max_turns

C3_Witness ==
    /\ max_turns >= 2
    /\ Len(events) = 2 * max_turns
    /\ Cardinality(CallsOf("answer_fn")) = max_turns
    /\ Returned

\* C4: in a turn in which a question is asked the steps are ask_fn, the ask
\* event, answer_fn, the answer event, update_fn, in that order: every host
\* event directly follows a guesser event of the same turn, answer_fn is
\* called right after the ask_fn call that produced the question (with its
\* question text, the ask event being recorded), update_fn is called once,
\* right after answer_fn, with the payload answer_fn returned (the answer
\* event being recorded), and the next should_guess_fn call follows update_fn.
C4_AskAnswerUpdateOrder ==
    /\ \A i \in DOMAIN events :
          events[i].agent = "host" =>
              /\ i > 1
              /\ events[i - 1].agent = "guesser"
              /\ events[i - 1].turn = events[i].turn
    /\ \A j \in CallsOf("answer_fn") :
          /\ j - 1 \in QuestionCalls
          /\ calls[j - 1].turn = calls[j].turn
          /\ calls[j].arg = <<QuestionText(calls[j - 1].ret[1])>>
          /\ \E i \in DOMAIN events :
                /\ i < Len(events)
                /\ events[i] = Event(calls[j].turn, "guesser", calls[j - 1].ret[1])
                /\ events[i + 1] = Event(calls[j].turn, "host", calls[j].ret)
          /\ j < Len(calls) =>
                /\ calls[j + 1].fn = "update_fn"
                /\ calls[j + 1].turn = calls[j].turn
                /\ calls[j + 1].arg = <<calls[j].ret>>
    /\ \A j \in CallsOf("update_fn") : j > 1 /\ calls[j - 1].fn = "answer_fn"
    /\ \A j \in QuestionCalls :
          j < Len(calls) => calls[j + 1].fn = "answer_fn"
    /\ \A j \in CallsOf("should_guess_fn") :
          j > 1 => /\ calls[j - 1].fn = "update_fn"
                   /\ calls[j].turn = calls[j - 1].turn + 1
    /\ pc = "answer" => LastEvent = Event(turn, "guesser", payload[1])
    /\ pc = "update" => LastEvent = Event(turn, "host", payload[1])
    /\ Cardinality(CallsOf("update_fn")) =
          Cardinality(CallsOf("answer_fn")) - (IF pc = "update" THEN 1 ELSE 0)

C4_Witness ==
    /\ pc = "ask"
    /\ turn = 3
    /\ Len(events) = 4
    /\ Cardinality(CallsOf("update_fn")) = 2

\* C5: every result play() returns, whatever its outcome, carries the
\* outcome, turns_used and the event trace of the game.
C5_EveryResultCarriesTrace ==
    Returned =>
        /\ {"result", "turns_used", "events"} \subseteq DOMAIN Result
        /\ Result.result \in {"win", "lose", "error"}
        /\ Result.events = events
        /\ Result.turns_used = used

\* C6 as claimed: with ask_fn and make_guess_fn always returning None (and
\* at least one turn to play), play() returns error with reason
\* no_questions_and_no_guess whatever should_guess_fn answers.
NeverProposes ==
    \A i \in CallsOf("ask_fn") \cup CallsOf("make_guess_fn") : calls[i].ret = None

C6_Original ==
    (Returned /\ NeverProposes /\ max_turns >= 1) =>
        /\ Result.result = "error"
        /\ Result.reason = "no_questions_and_no_guess"

\* C6 as amended: with ask_fn and make_guess_fn always returning None and
\* max_turns >= 1, play() ends in its first turn and returns error; the
\* reason is no_questions_and_no_guess when should_guess_fn answered false and
\* no_guess_available when it answered true.
C6_NeverProposesIsError ==
    (NeverProposes /\ max_turns >= 1) =>
        /\ turn = 1
        /\ events = << >>
        /\ Returned =>
              /\ Result.result = "error"
              /\ Result.reason = IF calls[1].ret THEN "no_guess_available"
                                 ELSE "no_questions_and_no_guess"

C6_Witness ==
    /\ Returned
    /\ NeverProposes
    /\ max_turns >= 1
    /\ Result.reason = "no_questions_and_no_guess"

\* C7: a guess made on turn t, after t - 1 question/answer rounds, gives
\* turns_used = t and a trace of exactly 2 * (t - 1) + 1 events, and the
\* outcome is win if and only if check_guess_fn accepted the guess.
Accepted == \E i \in CallsOf("check_guess_fn") : calls[i].ret = TRUE

C7_GuessOnTurnT ==
    GuessCalls # {} =>
        /\ used = turn
        /\ Len(events) = 2 * (turn - 1) + 1
        /\ Cardinality(CallsOf("answer_fn")) = turn - 1
        /\ Returned =>
              /\ Result.turns_used = turn
              /\ Len(Result.events) = 2 * (turn - 1) + 1
              /\ Result.result = "win" <=> Accepted
              /\ Result.result = "lose" <=> ~Accepted

C7_Witness ==
    /\ Returned
    /\ Result.result = "win"
    /\ Result.turns_used = 2
    /\ Len(Result.events) = 3

(***************************************************************************)
(* Vocabulary of the claims about GuesserEntropy                           *)
(***************************************************************************)
\* s is t with some elements left out, the others keeping their order
RECURSIVE IsSubSeq(_, _)
IsSubSeq(s, t) ==
    IF s = << >> THEN TRUE
    ELSE IF t = << >> THEN FALSE
    ELSE IF Head(s) = Head(t) THEN IsSubSeq(Tail(s), Tail(t))
    ELSE IsSubSeq(s, Tail(t))

IsBooleanAttribute(a) == \E x \in Range(kb.attributes) : x.id = a /\ x.kind = "boolean"
\* the step just taken was update_with_answer(a, answer)
Updated(a, answer) == last'.op = "update_with_answer" /\ last'.args = <<a, answer>>
AttributeArgs == { x.id : x \in Range(kb.attributes) } \cup {"not_in_kb"}

\* C8: over any sequence of next_question, update_with_answer, should_guess
\* and make_guess calls the candidate set only shrinks: after each call the
\* candidate list is an order-preserving sub-sequence of the list before it
\* (so its size never grows and a removed entity never comes back).
C8_CandidatesOnlyShrink ==
    [][ /\ IsSubSeq(candidate_ids', candidate_ids)
        /\ Len(candidate_ids') <= Len(candidate_ids)
        /\ Range(candidate_ids') \subseteq Range(candidate_ids) ]_vars

C8_Witness ==
    /\ last.op = "update_with_answer"
    /\ Len(candidate_ids) = 1
    /\ Len(kb.objects) >= 3
    /\ Cardinality({ p[1] : p \in constraints }) = 2

\* C9: update_with_answer is a no-op when the answer is unknown, when the
\* attribute is not boolean, or when the attribute id is not in the
\* Knowledge Base: candidate set, constraint map and asked-attribute set are
\* unchanged.
C9_UpdateNoOp ==
    [][ \A a \in AttributeArgs, answer \in YesNo :
          (Updated(a, answer) /\ (answer = "unknown" \/ ~IsBooleanAttribute(a)))
              => UNCHANGED <<candidate_ids, constraints, asked_attribute_ids>> ]_vars

C9_Witness ==
    /\ last.op = "update_with_answer"
    /\ last.args[2] = "unknown"
    /\ IsBooleanAttribute(last.args[1])
    /\ Len(candidate_ids) >= 2
    /\ \E i, j \in DOMAIN candidate_ids :
          Get(obj_by_id(kb, candidate_ids[i]).attributes, last.args[1], PyNone)
            # Get(obj_by_id(kb, candidate_ids[j]).attributes, last.args[1], PyNone)

\* C10: for a boolean attribute a and the answer yes (resp. no),
\* update_with_answer records a -> True (resp. False) in the constraint map,
\* leaving the other entries alone, and the candidate list becomes the
\* previous candidates whose recorded value for a is True (resp. False), in
\* their previous order; a candidate with no recorded value for a is removed.
C10_UpdateFilters ==
    [][ \A a \in AttributeArgs, answer \in {"yes", "no"} :
          (Updated(a, answer) /\ IsBooleanAttribute(a)) =>
              LET expected == IF answer = "yes" THEN "True" ELSE "False"
              IN  /\ <<a, expected>> \in constraints'
                  /\ \A p \in constraints' : p[1] = a => p[2] = expected
                  /\ { p \in constraints' : p[1] # a } = { p \in constraints : p[1] # a }
                  /\ IsSubSeq(candidate_ids', candidate_ids)
                  /\ Range(candidate_ids') =
                        { oid \in Range(candidate_ids) :
                            <<a, expected>> \in obj_by_id(kb, oid).attributes }
                  /\ \A oid \in Range(candidate_ids) :
                        ~HasKey(obj_by_id(kb, oid).attributes, a)
                            => oid \notin Range(candidate_ids') ]_vars

C10_Witness ==
    /\ last.op = "update_with_answer"
    /\ last.args = <<"b1", "no">>
    /\ candidate_ids = <<"o1", "o3">>
    /\ ~HasKey(obj_by_id(kb, "o2").attributes, "b1")
    /\ constraints = {<<"b1", "False">>}

(***************************************************************************)
(* Vocabulary of the claims about the questions GuesserEntropy asks        *)
(***************************************************************************)
BooleanAttributeIds == { x.id : x \in { y \in Range(kb.attributes) : y.kind = "boolean" } }
\* position of an attribute in the Knowledge Base's attribute list
KBOrder(a) == CHOOSE i \in DOMAIN kb.attributes : kb.attributes[i].id = a
\* the attribute of the question a next_question call returned
AskedBy(l) == Get(l.ret[1], "attribute_id", PyNone)

\* C11: GuesserEntropy never repeats a question and never asks about an
\* enum attribute.  Every question next_question returns is about a boolean
\* attribute that was not in the asked set before the call and is in it
\* after; over a whole run each attribute id is asked at most once, so at
\* most as many questions are produced as there are boolean attributes.
C11_NoRepeatedQuestion ==
    /\ [](/\ \A i, j \in DOMAIN questions : questions[i] = questions[j] => i = j
          /\ Range(questions) \subseteq BooleanAttributeIds
          /\ Range(questions) = asked_attribute_ids
          /\ Len(questions) <= Cardinality(BooleanAttributeIds)
          /\ select_next_attribute # None =>
                /\ select_next_attribute[1] \in BooleanAttributeIds
                /\ select_next_attribute[1] \notin asked_attribute_ids)
    /\ [][ (last'.op = "next_question" /\ last'.ret # None) =>
              /\ AskedBy(last') \in BooleanAttributeIds
              /\ AskedBy(last') \notin asked_attribute_ids
              /\ asked_attribute_ids' = asked_attribute_ids \cup {AskedBy(last')}
              /\ questions' = Append(questions, AskedBy(last')) ]_vars

C11_Witness ==
    /\ \E x \in Range(kb.attributes) : x.kind = "enum"
    /\ Len(questions) = Cardinality(BooleanAttributeIds)
    /\ Len(questions) >= 2
    /\ last.op = "next_question"
    /\ last.ret = None

\* the yes / no / unknown split of the current candidates on attribute a,
\* counted from the objects of the Knowledge Base
SplitOf(a) ==
    LET yes == { i \in DOMAIN candidate_ids :
                   <<a, "True">> \in obj_by_id(kb, candidate_ids[i]).attributes }
        no == { i \in DOMAIN candidate_ids :
                  <<a, "False">> \in obj_by_id(kb, candidate_ids[i]).attributes }
    IN  <<Cardinality(yes), Cardinality(no),
          Len(candidate_ids) - Cardinality(yes) - Cardinality(no)>>
\* the entropy of the split on a is strictly greater than that on b
SplitsBetter(a, b) ==
    EntropyGreater(entropy_from_counts(SplitOf(a)), entropy_from_counts(SplitOf(b)))
Unasked == BooleanAttributeIds \ asked_attribute_ids

\* C12: select_next_attribute returns, among the boolean attributes not yet
\* asked, one whose yes/no/unknown split of the current candidates has
\* maximal entropy, the first in Knowledge Base order among equals; it
\* returns none exactly when every boolean attribute has been asked (so it
\* still returns one when all remaining splits have entropy 0).
C12_SelectsMaxEntropy ==
    /\ select_next_attribute = None <=> Unasked = {}
    /\ select_next_attribute # None =>
          LET a == select_next_attribute[1]
          IN  /\ a \in Unasked
              /\ \A b \in Unasked : ~SplitsBetter(b, a)
              /\ \A b \in Unasked : KBOrder(b) < KBOrder(a) => SplitsBetter(a, b)

C12_Witness ==
    /\ kb = SeedKB
    /\ candidate_ids = <<"apple", "laptop">>
    /\ asked_attribute_ids = {}
    /\ select_next_attribute = Some("is_fruit")
    /\ ~SplitsBetter("is_fruit", "is_electronic")
    /\ SplitsBetter("is_fruit", "is_animal")

\* 1 / n >= tau for n >= 1 candidates
PosteriorAtLeastTau(n) == n >= 1 /\ tau[2] >= tau[1] * n

\* C13: when exactly one candidate remains should_guess returns true,
\* whatever the threshold tau and whatever (questions_used, max_questions).
C13_SingleCandidateGuesses ==
    (last.op = "should_guess" /\ Len(candidate_ids) = 1) => last.ret = TRUE

C13_Witness ==
    /\ last.op = "should_guess"
    /\ Len(candidate_ids) = 1
    /\ last.ret = TRUE
    /\ ~PosteriorAtLeastTau(1)
    /\ last.args[2] - last.args[1] > 2

\* C14 as stated: should_guess returns true iff exactly one candidate
\* remains, or 1/|C| >= tau (which does not apply to the empty set), or at
\* most 2 questions are left and at most 3 candidates remain.
C14_Original ==
    last.op = "should_guess" =>
        (last.ret <=> \/ Len(candidate_ids) = 1
                      \/ PosteriorAtLeastTau(Len(candidate_ids))
                      \/ /\ last.args[2] - last.args[1] <= 2
                         /\ Len(candidate_ids) <= 3)

\* C14: for every candidate set, tau and (questions_used, max_questions),
\* should_guess returns true iff at most one candidate remains (the empty
\* set included), or 1/|C| >= tau, or at most 2 questions are left and at
\* most 3 candidates remain.
C14_ShouldGuessRule ==
    last.op = "should_guess" =>
        (last.ret <=> \/ Len(candidate_ids) <= 1
                      \/ PosteriorAtLeastTau(Len(candidate_ids))
                      \/ /\ last.args[2] - last.args[1] <= 2
                         /\ Len(candidate_ids) <= 3)

C14_Witness ==
    /\ last.op = "should_guess"
    /\ candidate_ids = << >>
    /\ last.ret = TRUE
    /\ last.args[2] - last.args[1] > 2

\* C15: in the seed Knowledge Base, starting from the full candidate set,
\* update_with_answer(is_fruit, yes) leaves exactly the candidate apple, and
\* the should_guess call that follows returns true for every
\* (questions_used, max_questions).
C15_SeedScenario ==
    [][ /\ ( /\ kb = SeedKB
             /\ Len(candidate_ids) = Len(SeedKB.objects)
             /\ Updated("is_fruit", "yes") )
           => candidate_ids' = <<"apple">>
        /\ ( /\ kb = SeedKB
             /\ last.op = "update_with_answer"
             /\ last.args = <<"is_fruit", "yes">>
             /\ candidate_ids = <<"apple">>
             /\ last'.op = "should_guess" )
           => last'.ret = TRUE ]_vars

C15_Witness ==
    /\ kb = SeedKB
    /\ constraints = {<<"is_fruit", "True">>}
    /\ candidate_ids = <<"apple">>
    /\ last.op = "should_guess"
    /\ last.args = <<0, DefaultMaxTurns>>
    /\ last.ret = TRUE
    /\ ~PosteriorAtLeastTau(1)

(***************************************************************************)
(* Vocabulary of the claims about structured_call and retry_call           *)
(***************************************************************************)
IsCall(e) == e.ev = "call"
IsSleep(e) == e.ev = "sleep"
OracleRaised(e) == e.ev = "call" /\ e.out.kind = "raise"
OracleResponded(e) == e.ev = "call" /\ e.out.kind = "response"
\* number of oracle invocations so far
Invocations == Len(SelectSeq(oracle_log, IsCall))
LastEntry == oracle_log[Len(oracle_log)]
\* the text structured_call takes from a response
ResponseText(e) == Strip(ContentOrEmpty(e.out.resp))
\* the texts that are JSON and satisfy the host schema, and their values
ValidTexts == {TextYes, TextNo}
ValidValues ==
    { {<<"type", "answer_yes_no">>, <<"answer", "yes">>, <<"consistency_score", "1.0">>},
      {<<"type", "answer_yes_no">>, <<"answer", "no">>, <<"consistency_score", "0.5">>} }
ValidResponse(e) == OracleResponded(e) /\ ResponseText(e) \in ValidTexts
InvalidResponse(e) == OracleResponded(e) /\ ResponseText(e) \notin ValidTexts
NoOracleRaise == \A i \in DOMAIN oracle_log : OracleResponded(oracle_log[i])
CallReturned == llm_pc = "returned"
CallRaised == llm_pc = "raised"

\* C16: whenever structured_call returns normally, for every max_repairs
\* and oracle behaviour, it returns (parsed_value, metadata) where
\* parsed_value is the parse of the oracle's most recent response and
\* satisfies the schema; no unparsable or schema-invalid response is returned.
C16_ReturnsValidatedParse ==
    CallReturned =>
        /\ outcome # None
        /\ outcome[1].kind = "return"
        /\ oracle_log # << >>
        /\ ValidResponse(LastEntry)
        /\ outcome[1].parsed = json_loads(ResponseText(LastEntry)).value
        /\ outcome[1].parsed \in ValidValues
        /\ outcome[1].meta.raw_text = ResponseText(LastEntry)

C16_Witness ==
    /\ CallReturned
    /\ \E i \in DOMAIN oracle_log : InvalidResponse(oracle_log[i])
    /\ \E i \in DOMAIN oracle_log : OracleRaised(oracle_log[i])
    /\ LastEntry.out.resp.content = Some(TextNoPadded)
    /\ Get(outcome[1].parsed, "answer", PyNone) = "no"

\* the oracle has not raised, its responses but the last were invalid and
\* the last one, the (k+1)-th with k <= max_repairs, is valid
InvalidThenValid ==
    /\ oracle_log # << >>
    /\ NoOracleRaise
    /\ Len(oracle_log) - 1 <= max_repairs
    /\ \A i \in 1..(Len(oracle_log) - 1) : InvalidResponse(oracle_log[i])
    /\ ValidResponse(LastEntry)

\* C17: if the oracle never raises, its first k responses (k <= max_repairs)
\* are unparsable or schema-invalid and the (k+1)-th is valid, then
\* structured_call returns the (k+1)-th parsed value with attempts = k+1
\* after exactly k+1 oracle invocations.
C17_ReturnsAfterKRepairs ==
    /\ [](InvalidThenValid =>
            /\ llm_pc \in {"parse", "returned"}
            /\ Invocations = Len(oracle_log)
            /\ attempts = Len(oracle_log)
            /\ CallReturned =>
                  /\ outcome[1].kind = "return"
                  /\ outcome[1].parsed = json_loads(ResponseText(LastEntry)).value
                  /\ outcome[1].meta.attempts = Len(oracle_log))
    /\ [][(InvalidThenValid /\ llm_pc = "parse") => llm_pc' = "returned"]_vars

C17_Witness ==
    /\ InvalidThenValid
    /\ CallReturned
    /\ Len(oracle_log) = max_repairs + 1
    /\ max_repairs >= 2
    /\ outcome[1].meta.attempts = 3

\* the oracle has been invoked, has not raised and all its responses were invalid
OnlyInvalid ==
    /\ oracle_log # << >>
    /\ NoOracleRaise
    /\ \A i \in DOMAIN oracle_log : InvalidResponse(oracle_log[i])
\* the exception the parse or the validation of a text raises
FailureType(text) == IF text = TextMaybe THEN "ValidationError" ELSE "JSONDecodeError"

\* C18: if the oracle never raises and every response is unparsable or
\* schema-invalid, structured_call raises LLMClientError, wrapping the
\* failure of the last response, after exactly max_repairs + 1 oracle
\* invocations, never fewer and never more.
C18_RaisesAfterRepairs ==
    /\ [](OnlyInvalid =>
            /\ Invocations <= max_repairs + 1
            /\ ~CallReturned
            /\ Invocations = max_repairs + 1 => llm_pc \in {"parse", "raised"}
            /\ CallRaised =>
                  /\ Invocations = max_repairs + 1
                  /\ outcome[1].kind = "raise"
                  /\ outcome[1].exc.type = "LLMClientError"
                  /\ outcome[1].exc.cause.type = FailureType(ResponseText(LastEntry)))
    /\ [][(OnlyInvalid /\ Invocations = max_repairs + 1 /\ llm_pc = "parse")
             => llm_pc' = "raised"]_vars

C18_Witness ==
    /\ OnlyInvalid
    /\ CallRaised
    /\ max_repairs >= 2
    /\ Invocations = 3
    /\ outcome[1].exc.cause.type = "ValidationError"
    /\ \E i \in DOMAIN oracle_log : LastEntry.out.resp # oracle_log[i].out.resp

\* the entries of the r-th retry_call of the structured_call; the retry_call
\* that is running, if any, is number attempts + 1
InRound(r) == { i \in DOMAIN oracle_log : oracle_log[i].round = r }
CallsOfRound(r) == { i \in InRound(r) : IsCall(oracle_log[i]) }
SleepsOfRound(r) == { i \in InRound(r) : IsSleep(oracle_log[i]) }
Rounds == { oracle_log[i].round : i \in DOMAIN oracle_log }

\* C19: retry_call invokes func at most max_retries + 1 times; it returns
\* the result of the first invocation that succeeds without invoking func
\* again; if all max_retries + 1 invocations raise it re-raises the
\* exception of the last one; it sleeps exactly once before each retry and
\* never after the final failure.
C19_RetryCall ==
    \A r \in Rounds :
        /\ Cardinality(CallsOfRound(r)) <= max_retries + 1
        /\ \A i \in CallsOfRound(r) :
              /\ OracleResponded(oracle_log[i]) =>
                    /\ \A j \in InRound(r) : j <= i
                    /\ i = Len(oracle_log) =>
                          /\ resp = Some(oracle_log[i].out.resp)
                          /\ llm_pc \in {"call", "sleep"} => attempts + 1 > r
              /\ (\E j \in InRound(r) : j < i) =>
                    /\ IsSleep(oracle_log[i - 1])
                    /\ oracle_log[i - 1].round = r
        /\ \A i \in SleepsOfRound(r) :
              /\ i > 1
              /\ OracleRaised(oracle_log[i - 1])
              /\ oracle_log[i - 1].round = r
              /\ i < Len(oracle_log) =>
                    IsCall(oracle_log[i + 1]) /\ oracle_log[i + 1].round = r
              /\ i = Len(oracle_log) => llm_pc = "call"
        /\ Cardinality(SleepsOfRound(r)) <= max_retries
        /\ ( /\ Cardinality(CallsOfRound(r)) = max_retries + 1
             /\ \A i \in CallsOfRound(r) : OracleRaised(oracle_log[i]) )
           => /\ CallRaised
              /\ IsCall(LastEntry)
              /\ LastEntry.round = r
              /\ outcome = Some([kind |-> "raise", exc |-> LastEntry.out.exc])
              /\ Cardinality(SleepsOfRound(r)) = max_retries
        /\ ( /\ CallRaised
             /\ outcome[1].exc.type = "Exception"
             /\ r = LastEntry.round )
           => Cardinality(CallsOfRound(r)) = max_retries + 1

C19_Witness ==
    /\ CallRaised
    /\ outcome[1].exc.type = "Exception"
    /\ max_retries = 2
    /\ Rounds = {1, 2}
    /\ Cardinality(CallsOfRound(1)) = 2
    /\ Cardinality(SleepsOfRound(1)) = 1
    /\ Cardinality(CallsOfRound(2)) = 3
    /\ Cardinality(SleepsOfRound(2)) = 2

\* the faults a call has absorbed: oracle exceptions plus malformed responses
Faults ==
    Cardinality({ i \in DOMAIN oracle_log :
                    OracleRaised(oracle_log[i]) \/ InvalidResponse(oracle_log[i]) })

\* C20 as stated: no structured_call that returns a valid value has
\* absorbed more than max_retries * (max_repairs + 1) faults.
C20_Original ==
    CallReturned => Faults <= max_retries * (max_repairs + 1)

\* C20: a structured_call that returns a valid value has absorbed at most
\* max_retries * (max_repairs + 1) + max_repairs faults (max_retries oracle
\* exceptions in each of the max_repairs + 1 rounds and one malformed
\* response in each round but the last), and that many can be absorbed.
C20_FaultsAbsorbed ==
    CallReturned =>
        /\ outcome[1].parsed \in ValidValues
        /\ Faults <= max_retries * (max_repairs + 1) + max_repairs

C20_Witness ==
    /\ CallReturned
    /\ max_retries >= 1
    /\ max_repairs >= 1
    /\ outcome[1].parsed \in ValidValues
    /\ Faults = max_retries * (max_repairs + 1) + max_repairs

(***************************************************************************)
(* Vocabulary of the claims about AttributeIndex                           *)
(***************************************************************************)
\* the entities that record a value for attribute a
Recording(a) == { o.id : o \in { x \in Range(kb.objects) : HasKey(x.attributes, a) } }
NoDuplicates(seq) == \A i, j \in DOMAIN seq : seq[i] = seq[j] => i = j

\* C21: after AttributeIndex construction, for every attribute the value
\* buckets are pairwise disjoint, their union is exactly the set of
\* entities recording a value for the attribute, each entity is in the
\* bucket of its own value and an entity omitting the attribute is in no
\* bucket; partition_counts, yes_no_partition_counts and
\* expected_entropy_yes_no never change the index.
C21_IndexPartitions ==
    /\ [](/\ \A a \in DOMAIN index :
                /\ \A v, w \in DOMAIN index[a] :
                      v # w => Range(index[a][v]) \cap Range(index[a][w]) = {}
                /\ \A v \in DOMAIN index[a] : NoDuplicates(index[a][v])
                /\ UNION { Range(index[a][v]) : v \in DOMAIN index[a] } = Recording(a)
          /\ \A o \in Range(kb.objects) :
                /\ \A p \in o.attributes :
                      /\ p[1] \in DOMAIN index
                      /\ p[2] \in DOMAIN index[p[1]]
                      /\ o.id \in Range(index[p[1]][p[2]])
                /\ \A a \in DOMAIN index :
                      ~HasKey(o.attributes, a) =>
                          \A v \in DOMAIN index[a] : o.id \notin Range(index[a][v]))
    /\ [][index' = index]_vars

C21_Witness ==
    /\ last.op = "expected_entropy_yes_no"
    /\ "b1" \in DOMAIN index
    /\ "True" \in DOMAIN index["b1"]
    /\ Len(index["b1"]["True"]) = 2
    /\ \E o \in Range(kb.objects) : ~HasKey(o.attributes, "b1")
    /\ "e1" \in DOMAIN index

\* C22: for every candidate list of distinct entity ids and every boolean
\* attribute, yes_no_partition_counts returns (yes, no, unknown): the
\* numbers of candidates whose recorded value is true, is false, and that
\* record no value; unknown >= 0 and yes + no + unknown = |candidates|.
C22_YesNoCounts ==
    (last.op = "yes_no_partition_counts" /\ last.args[2] \in BooleanAttributeIds) =>
        LET cands == Range(last.args[1])
            a == last.args[2]
            holding(v) == { c \in cands : <<a, v>> \in obj_by_id(kb, c).attributes }
        IN  /\ last.ret[1] = Cardinality(holding("True"))
            /\ last.ret[2] = Cardinality(holding("False"))
            /\ last.ret[3] = Cardinality({ c \in cands : ~HasKey(obj_by_id(kb, c).attributes, a) })
            /\ last.ret[3] >= 0
            /\ last.ret[1] + last.ret[2] + last.ret[3] = Len(last.args[1])

C22_Witness ==
    /\ last.op = "yes_no_partition_counts"
    /\ last.args[2] = "b1"
    /\ Len(last.args[1]) = 3
    /\ last.ret = <<1, 1, 1>>

\* an entropy kept as [total, weight] is log2(total) - log2(weight) / total:
\* w = b^n, computed by division so that no power leaves the integers of TLC
RECURSIVE IsPower(_, _, _)
IsPower(w, b, n) ==
    IF n = 0 THEN w = 1
    ELSE b > 0 /\ w % b = 0 /\ IsPower(w \div b, b, n - 1)
\* the entropy is 0: nothing was counted, or weight = total^total
EntropyIsZero(e) == e.total = 0 \/ IsPower(e.weight, e.total, e.total)
\* the entropy is log2(k): weight = (total / k)^total
EntropyIsLog2(e, k) ==
    /\ e.total > 0
    /\ e.total % k = 0
    /\ IsPower(e.weight, e.total \div k, e.total)
Positive(counts) == { i \in DOMAIN counts : counts[i] > 0 }

\* C23: entropy_from_counts returns 0 when at most one count is positive
\* (an empty or all-zero list included), a strictly positive value when at
\* least two counts are positive, and log2(k) when the mass is split evenly
\* over k non-zero buckets: entropy_from_counts([n,0,0]) = 0 and
\* entropy_from_counts([k,k,k]) = log2(3).
C23_EntropyValues ==
    last.op = "entropy_from_counts" =>
        LET counts == last.args
            k == Cardinality(Positive(counts))
        IN  /\ k <= 1 => EntropyIsZero(last.ret)
            /\ k >= 2 => ~EntropyIsZero(last.ret)
            /\ (k >= 1 /\ \A i, j \in Positive(counts) : counts[i] = counts[j])
                  => EntropyIsLog2(last.ret, k)

C23_Witness ==
    /\ last.op = "entropy_from_counts"
    /\ last.args = <<MaxCount, MaxCount, MaxCount>>
    /\ EntropyIsLog2(last.ret, 3)
    /\ ~EntropyIsZero(last.ret)

(***************************************************************************)
(* Vocabulary of the claims about the legacy GameRunner.play()             *)
(***************************************************************************)
RunnerReturned == runner_pc = "returned"
RunnerResult == game_result[1]
Transcript == RunnerResult.transcript
TurnCalls == { i \in DOMAIN runner_calls : runner_calls[i].fn = "next_action" }
TurnsPlayed == Cardinality(TurnCalls)
\* the guesser's turn i is a guess that equals the host's topic
IsCorrectGuess(i) ==
    /\ runner_calls[i].ret.action = "guess"
    /\ Normalize(runner_calls[i].ret.content) = Normalize(host_topic)
CorrectGuessMade == \E i \in TurnCalls : IsCorrectGuess(i)
\* a host reply inside the loop revealed the topic
HostRevealed ==
    \E i \in DOMAIN runner_calls :
        /\ runner_calls[i].fn = "answer"
        /\ runner_calls[i].turn >= 1
        /\ runner_calls[i].ret.reveal_topic
        /\ Truthy(runner_calls[i].ret.topic)
\* the guesser ended the game itself: a finish action or a correct guess
EndedByGuesser ==
    \E i \in TurnCalls : runner_calls[i].ret.action = "finish" \/ IsCorrectGuess(i)
\* play() has returned after all max_turns turns, none of which ended the game
BudgetUsedUp ==
    /\ RunnerReturned
    /\ TurnsPlayed = runner_max_turns
    /\ ~HostRevealed
    /\ ~EndedByGuesser
GiveUpEntry == ConversationEntry("guesser", "I give up.")
EntriesOf(log, role) == { i \in DOMAIN log : log[i].role = role }

\* C24: in the legacy GameRunner.play(), once a guess equal to the host's
\* topic (case-insensitively, trimmed) has been made and play() has returned,
\* the result has success = True, final_topic equal to the topic, and a
\* transcript of exactly two entries per turn played.  The code takes success
\* and final_topic from the host's reply instead, so this is violated.
C24_CorrectGuessWins ==
    (RunnerReturned /\ CorrectGuessMade) =>
        /\ RunnerResult.success = TRUE
        /\ Normalize(RunnerResult.final_topic) = Normalize(host_topic)
        /\ Len(Transcript) = 2 * TurnsPlayed

EventsOfTurn(t) == { i \in DOMAIN events : events[i].turn = t }
CallsInTurn(t, fns) == { i \in DOMAIN calls : calls[i].turn = t /\ calls[i].fn \in fns }
\* make_guess_fn was called because should_guess_fn had returned true
ForcedGuessCalls ==
    { i \in CallsOf("make_guess_fn") :
        i > 1 /\ calls[i - 1].fn = "should_guess_fn" /\ calls[i - 1].ret = TRUE }
\* ask_fn produced no question
EmptyAskCalls == { j \in CallsOf("ask_fn") : Falsy(calls[j].ret) }

\* C28: when should_guess_fn returned true and make_guess_fn then returned
\* None (or an empty payload), play() has returned error with reason
\* no_guess_available and nothing else, in that turn: no event carries the
\* turn, and ask_fn, answer_fn, update_fn and check_guess_fn were not called
\* in it, nor anything after make_guess_fn.
C28_NoGuessAvailable ==
    \A i \in ForcedGuessCalls :
        Falsy(calls[i].ret) =>
            /\ Returned
            /\ Result = [result |-> "error", reason |-> "no_guess_available"]
            /\ turn = calls[i].turn
            /\ calls[i - 1].turn = calls[i].turn
            /\ EventsOfTurn(calls[i].turn) = {}
            /\ CallsInTurn(calls[i].turn,
                           {"ask_fn", "answer_fn", "update_fn", "check_guess_fn"}) = {}
            /\ i = Len(calls)

\* in the second turn or later, after a question was asked and answered
C28_Witness ==
    /\ Returned
    /\ Result = [result |-> "error", reason |-> "no_guess_available"]
    /\ turn >= 2
    /\ events # << >>
    /\ calls[Len(calls)].ret = None
    /\ Len(calls) \in ForcedGuessCalls

\* C29: when should_guess_fn returned false and ask_fn returned None (or an
\* empty payload), the next call is make_guess_fn, in the same turn.  A guess
\* it produces is the last event of the trace, counted in used, and checked
\* like any guess: play() returns win iff check_guess_fn accepted it and lose
\* otherwise, with turns_used counting it.  Only when it produces none does
\* play() return error with reason no_questions_and_no_guess, and no_questions_and_no_guess
\* is returned in no other case.
C29_FallbackGuess ==
    /\ \A j \in EmptyAskCalls :
          /\ j > 1 /\ calls[j - 1].fn = "should_guess_fn" /\ calls[j - 1].ret = FALSE
          /\ calls[j - 1].turn = calls[j].turn
          /\ j = Len(calls) => (pc = "fallback_guess" /\ ~Returned)
          /\ j < Len(calls) =>
                /\ calls[j + 1].fn = "make_guess_fn"
                /\ calls[j + 1].turn = calls[j].turn
                /\ IF Falsy(calls[j + 1].ret)
                   THEN /\ Returned
                        /\ Result = [result |-> "error", reason |-> "no_questions_and_no_guess"]
                        /\ EventsOfTurn(calls[j].turn) = {}
                        /\ used = Cardinality(QuestionCalls)
                   ELSE /\ events # << >>
                        /\ LastEvent = Event(calls[j].turn, "guesser", calls[j + 1].ret[1])
                        /\ Cardinality(EventsOfTurn(calls[j].turn)) = 1
                        /\ used = Cardinality(QuestionCalls) + 1
                        /\ pc \in {"check_guess", "done"}
                        /\ Returned =>
                              /\ Result.result = (IF Accepted THEN "win" ELSE "lose")
                              /\ Result.turns_used = Cardinality(QuestionCalls) + 1
                              /\ Result.guess = calls[j + 1].ret[1]
                              /\ Result.events = events
                              /\ "reason" \notin DOMAIN Result
    /\ (Returned /\ "reason" \in DOMAIN Result /\ Result.reason = "no_questions_and_no_guess") =>
          /\ Len(calls) - 1 \in EmptyAskCalls
          /\ Falsy(calls[Len(calls)].ret)

\* after one question/answer round ask_fn runs dry and the fallback guess is accepted
C29_Witness ==
    /\ Returned
    /\ Result.result = "win"
    /\ Result.turns_used = 2
    /\ EmptyAskCalls # {}
    /\ \E j \in EmptyAskCalls : calls[j].turn = 2 /\ calls[j + 1].fn = "make_guess_fn"

\* the guess payload's object_id / object_name, None when absent
RawId(g) == Get(g, "object_id", PyNone)
RawName(g) == Get(g, "object_name", PyNone)
NonEmpty(x) == x # PyNone /\ x # ""

\* C30: a guess is checked through check_guess_fn at most once, with one
\* identifier: its object_id when that is a non-empty string, whatever the
\* verdict and whatever its object_name; otherwise its object_name when that
\* is non-empty.  A guess with neither is still the last event of the trace
\* and counted in turns_used, and play() has returned lose without calling
\* check_guess_fn.
C30_OneIdentifier ==
    \A i \in GuessCalls :
        LET g == calls[i].ret[1]
            checks == CallsOf("check_guess_fn")
        IN  /\ Cardinality(checks) <= 1
            /\ \A c \in checks : c = i + 1
            /\ NonEmpty(RawId(g)) =>
                  /\ \A c \in checks : calls[c].arg = <<RawId(g)>>
                  /\ Returned => Cardinality(checks) = 1
            /\ (~NonEmpty(RawId(g)) /\ NonEmpty(RawName(g))) =>
                  /\ \A c \in checks : calls[c].arg = <<RawName(g)>>
                  /\ Returned => Cardinality(checks) = 1
            /\ (~NonEmpty(RawId(g)) /\ ~NonEmpty(RawName(g))) =>
                  /\ checks = {}
                  /\ Returned
                  /\ Result.result = "lose"
                  /\ events # << >>
                  /\ LastEvent = Event(calls[i].turn, "guesser", g)
                  /\ Result.events = events
                  /\ Result.turns_used = Cardinality(QuestionCalls) + 1
                  /\ used = Cardinality(QuestionCalls) + 1

\* a guess with both an id and a name is rejected: only the id was checked
C30_Witness ==
    /\ Returned
    /\ Result.result = "lose"
    /\ \E i \in GuessCalls :
          /\ NonEmpty(RawId(calls[i].ret[1]))
          /\ NonEmpty(RawName(calls[i].ret[1]))
          /\ RawId(calls[i].ret[1]) # RawName(calls[i].ret[1])
          /\ calls[i + 1].fn = "check_guess_fn"
          /\ calls[i + 1].arg = <<RawId(calls[i].ret[1])>>
          /\ calls[i + 1].ret = FALSE
          /\ i + 1 = Len(calls)

\* a guess with neither an id nor a name loses unchecked
C30_WitnessNeither ==
    /\ Returned
    /\ Result.result = "lose"
    /\ CallsOf("check_guess_fn") = {}
    /\ \E i \in GuessCalls : ~NonEmpty(RawId(calls[i].ret[1])) /\ ~NonEmpty(RawName(calls[i].ret[1]))

(***************************************************************************)
(* Further claims about structured_call                                    *)
(***************************************************************************)
\* the response that ended round j, and the repair message built from it
RoundResponse(j) ==
    oracle_log[CHOOSE i \in CallsOfRound(j) : OracleResponded(oracle_log[i])]
RepairOf(j) == repair_msg(TryParse(ResponseText(RoundResponse(j))).err[1].message)
\* the rounds whose retry_call has returned a response
AnsweredRounds == { r \in Rounds : \E i \in CallsOfRound(r) : OracleResponded(oracle_log[i]) }
\* every oracle invocation of round r raised, max_retries + 1 of them
RoundFailed(r) ==
    /\ Cardinality(CallsOfRound(r)) = max_retries + 1
    /\ \A i \in CallsOfRound(r) : OracleRaised(oracle_log[i])

\* C31: every request sent to the oracle in round k + 1, after k failed
\* parse/validation rounds, is the JSON-signalled messages followed by the k
\* repair messages of rounds 1..k, and no round beyond max_repairs + 1 is
\* issued.  The code sends only the latest repair message, so this is
\* violated by the second repair round.
C31_RepairsAccumulate ==
    \A i \in DOMAIN oracle_log :
        IsCall(oracle_log[i]) =>
            LET k == oracle_log[i].round - 1
            IN  /\ k <= max_repairs
                /\ oracle_log[i].request =
                       messages_effective \o [j \in 1..k |-> RepairOf(j)]

\* C32: in whichever round all max_retries + 1 oracle invocations raised,
\* structured_call has raised the exception of the last invocation itself,
\* not an LLMClientError, and no later round exists; and every round has its
\* own retry budget: while a round runs, attempt is the number of sleeps of
\* that round, whatever the rounds before used.
C32_StrategiesSeparate ==
    /\ \A r \in Rounds :
          RoundFailed(r) =>
              /\ CallRaised
              /\ outcome = Some([kind |-> "raise", exc |-> LastEntry.out.exc])
              /\ outcome[1].exc.type = "Exception"
              /\ LastEntry.round = r
              /\ \A q \in Rounds : q <= r
              /\ attempts = r - 1
    /\ llm_pc \in {"call", "sleep"} =>
          /\ attempt = Cardinality(SleepsOfRound(attempts + 1))
          /\ attempt <= max_retries
          /\ Cardinality(CallsOfRound(attempts + 1)) =
                attempt + (IF llm_pc = "sleep" THEN 1 ELSE 0)

\* the first round used up its retries and returned; the repair round raised
\* on each of its max_retries + 1 invocations
C32_Witness ==
    /\ CallRaised
    /\ max_retries >= 1
    /\ Rounds = {1, 2}
    /\ Cardinality(SleepsOfRound(1)) = max_retries
    /\ RoundFailed(2)
    /\ outcome[1].exc = LastEntry.out.exc

\* what structured_call returns when the oracle gives the responses rs and
\* never raises: the first valid one, and its position as attempts
Responded == SelectSeq(oracle_log, OracleResponded)
RECURSIVE FirstValid(_, _)
FirstValid(rs, n) ==
    IF rs = << >> THEN [found |-> FALSE]
    ELSE IF ResponseText(Head(rs)) \in ValidTexts
    THEN [found |-> TRUE, attempts |-> n,
          parsed |-> json_loads(ResponseText(Head(rs))).value,
          raw_text |-> ResponseText(Head(rs)),
          usage |-> Head(rs).out.resp.usage]
    ELSE FirstValid(Tail(rs), n + 1)
HasRetries == \E i \in DOMAIN oracle_log : OracleRaised(oracle_log[i])

\* C33: what structured_call returns is determined by the sequence of the
\* oracle's responses alone, the exceptions interleaved with them leaving no
\* trace: the parsed value, attempts, raw text and usage are those of the
\* first valid response, attempts being its position in the sequence; and
\* attempts is always the number of rounds that got a response, 1 plus the
\* repair rounds issued by the time of the return.
C33_RetriesInvisible ==
    /\ CallReturned =>
          LET expected == FirstValid(Responded, 1)
          IN  /\ expected.found
              /\ outcome[1].parsed = expected.parsed
              /\ outcome[1].meta.attempts = expected.attempts
              /\ outcome[1].meta.raw_text = expected.raw_text
              /\ outcome[1].meta.usage_total_tokens =
                     (IF expected.usage = None THEN None
                      ELSE Some(expected.usage[1].total_tokens))
              /\ expected.attempts = Len(Responded)
              /\ outcome[1].meta.attempts = 1 + (Cardinality(Rounds) - 1)
    /\ attempts = Cardinality(AnsweredRounds)
    /\ attempts = Len(Responded)

\* a return after one repair round, with oracle exceptions in both rounds
C33_Witness ==
    /\ CallReturned
    /\ outcome[1].meta.attempts = 2
    /\ \E i \in CallsOfRound(1) : OracleRaised(oracle_log[i])
    /\ \E i \in CallsOfRound(2) : OracleRaised(oracle_log[i])
    /\ Cardinality(SleepsOfRound(1)) + Cardinality(SleepsOfRound(2)) >= 3

\* C39: for every max_retries, max_repairs and oracle behaviour,
\* structured_call makes at most (max_retries + 1) * (max_repairs + 1) oracle
\* invocations, and it terminates: it eventually returns or raises.
C39_Terminates ==
    /\ [](Invocations <= (max_retries + 1) * (max_repairs + 1))
    /\ <>(CallReturned \/ CallRaised)

\* the bound is met: every round but the last uses all its retries and gets an
\* invalid response, the last one raises throughout
C39_Witness ==
    /\ CallRaised
    /\ max_retries >= 1
    /\ max_repairs >= 1
    /\ Invocations = (max_retries + 1) * (max_repairs + 1)

(***************************************************************************)
(* Claims about the answers of HostRuleBased                               *)
(***************************************************************************)
TopicKnown == topic_object_id \in ObjectIds(rb_kb[1])
KindOf(a) ==
    IF attr_by_id(rb_kb[1], a) = None THEN "none" ELSE attr_by_id(rb_kb[1], a)[1].kind
\* the value the topic records for attribute a, PyNone when it records none
TopicValue(a) == Get(obj_by_id(rb_kb[1], topic_object_id).attributes, a, PyNone)
AnswerOf(e) == Get(e.ret[1], "answer", PyNone)

\* C34: a question the parser maps to an enum-valued attribute, asked of a
\* host whose topic records a value for it, gets a determinate answer, yes or
\* no.  The code answers unknown for every non-boolean attribute, so this is
\* violated.
C34_EnumAnswered ==
    \A i \in DOMAIN rb_log :
        ( /\ TopicKnown
          /\ KindOf(rb_log[i].attribute_id) = "enum"
          /\ TopicValue(rb_log[i].attribute_id) # PyNone )
        => /\ rb_log[i].ret # None
           /\ AnswerOf(rb_log[i]) \in {"yes", "no"}

\* C35: HostRuleBased answers yes only to a question classified to a boolean
\* attribute whose recorded value for the topic is true, no only when that
\* value is false; an unmapped question, a non-boolean attribute, an
\* attribute the Knowledge Base does not have, and a boolean attribute the
\* topic records no value for are each answered unknown; with the topic in
\* the Knowledge Base every question is answered; and answering never
\* changes the Knowledge Base or the topic.
C35_TruthfulAnswers ==
    /\ [](\A i \in DOMAIN rb_log :
            LET a == rb_log[i].attribute_id
                e == rb_log[i]
            IN  /\ TopicKnown => e.ret # None
                /\ e.ret # None =>
                      /\ AnswerOf(e) \in {"yes", "no", "unknown"}
                      /\ AnswerOf(e) = "yes" =>
                            (KindOf(a) = "boolean" /\ TopicKnown /\ TopicValue(a) = "True")
                      /\ AnswerOf(e) = "no" =>
                            (KindOf(a) = "boolean" /\ TopicKnown /\ TopicValue(a) = "False")
                      /\ (a = PyNone \/ KindOf(a) # "boolean") => AnswerOf(e) = "unknown"
                /\ (TopicKnown /\ KindOf(a) = "boolean") =>
                      AnswerOf(e) = (CASE TopicValue(a) = "True" -> "yes"
                                       [] TopicValue(a) = "False" -> "no"
                                       [] OTHER -> "unknown"))
    /\ [][rb_kb' = rb_kb /\ topic_object_id' = topic_object_id]_vars

\* the host answered yes for a value its topic records as true, unknown for a
\* boolean value its topic lacks and unknown for an enum attribute
C35_Witness ==
    /\ TopicKnown
    /\ Len(rb_log) = 3
    /\ AnswerOf(rb_log[1]) = "yes"
    /\ AnswerOf(rb_log[2]) = "unknown"
    /\ KindOf(rb_log[2].attribute_id) = "boolean"
    /\ AnswerOf(rb_log[3]) = "unknown"
    /\ KindOf(rb_log[3].attribute_id) = "enum"

\* the host answered no for a value its topic records as false, and unknown
\* for an attribute its Knowledge Base does not have
C35_WitnessNo ==
    /\ TopicKnown
    /\ \E i \in DOMAIN rb_log : AnswerOf(rb_log[i]) = "no"
    /\ \E i \in DOMAIN rb_log :
          KindOf(rb_log[i].attribute_id) = "none" /\ rb_log[i].attribute_id # PyNone

(***************************************************************************)
(* Claims about the candidate set of GuesserEntropy                        *)
(***************************************************************************)
\* the ids of ObjectKB.filter_objects(constraints), in KB order
FilteredIds == LET r == filter_objects(kb, constraints) IN [i \in DOMAIN r |-> r[i].id]
CandidatesMatchFilter == candidate_ids = FilteredIds

\* this step is not a second yes/no answer for an attribute that has a constraint
FreshAnswer ==
    (last'.op = "update_with_answer" /\ last'.args[2] # "unknown")
        => ~HasKey(constraints, last'.args[1])

\* C38: as long as no attribute receives a yes/no answer more than once, the
\* candidate ids are the ids of ObjectKB.filter_objects(constraints), in KB order:
\* true of a new guesser, and kept by every step that is not a repeated answer
C38_CandidatesAreFiltered ==
    /\ CandidatesMatchFilter
    /\ [][(CandidatesMatchFilter /\ FreshAnswer) => CandidatesMatchFilter']_vars

\* two attributes were answered once each, and the filter kept some objects and
\* dropped others
C38_Witness ==
    /\ Cardinality(constraints) = 2
    /\ CandidatesMatchFilter
    /\ Len(candidate_ids) \in 1..(Len(kb.objects) - 1)
    /\ last.op = "update_with_answer"

\* a second, contrary answer for one attribute: the candidates no longer match
C38_RepeatedAnswer ==
    /\ ~CandidatesMatchFilter
    /\ candidate_ids = << >>
    /\ Cardinality(constraints) = 1

(***************************************************************************)
(* Vocabulary of the claims about setup and about batches of games         *)
(***************************************************************************)
TopicAbsent == topic_object_id \notin ObjectIds(rb_kb[1])
BatchOver == batch_pc \in {"returned", "raised"}
SomeGameRaised == \E i \in Futures : futures[i].state = "failed"
\* game i's record is the content of one of the game files
Written(i) ==
    \E k \in DOMAIN collected :
        collected[k] = i /\ k \in DOMAIN files /\ files[k] = futures[i].result
CompletedGames == { i \in Futures : futures[i].state = "done" }

\* C26: a rule-based host whose topic is absent from the Knowledge Base is
\* never set up: construction is refused, so the host is never ready and
\* never asked a question.  HostRuleBased checks nothing at construction, so
\* this is violated.
C26_FailsAtSetup ==
    (rb_pc # "idle" /\ TopicAbsent) => (rb_pc # "ready" /\ rb_log = << >>)

\* C27: once run_many_concurrent is over and some game raised, every other
\* game has run to completion, its record is in a game file, and the metrics
\* were written and count it.  The first error collected aborts the
\* collection, so this is violated.
C27_OthersUnaffected ==
    (BatchOver /\ SomeGameRaised) =>
        /\ \A i \in Futures : Finished(i)
        /\ \A i \in CompletedGames :
              /\ Written(i)
              /\ metrics # None
              /\ metrics[1].games = Cardinality(CompletedGames)

(***************************************************************************)
(* Claims about a game of GameEngine driven by GuesserEntropy              *)
(***************************************************************************)
\* the loop body of a turn is about to be entered
StartOfTurn == pc = "should_guess" /\ turn <= max_turns
\* one of the last two turns
LateTurn == turn >= max_turns - 1
\* play() returned from the end of the loop: a loss that carries no guess
BudgetLoss ==
    /\ pc = "done"
    /\ returned[1].result = "lose"
    /\ "guess" \notin DOMAIN returned[1]
EndedInError == pc = "done" /\ returned[1].result = "error"

\* C36: when a turn that is one of the last two starts with at most 3
\* candidates, a guess is requested in that turn; and a game whose final turn
\* starts with at most 3 candidates never ends as a loss by budget exhaustion
C36_ForcedDecisiveness ==
    /\ [][(StartOfTurn /\ LateTurn /\ Len(candidate_ids) <= 3)
            => (pc' = "make_guess" /\ calls'[Len(calls')].ret = TRUE)]_vars
    /\ []((StartOfTurn /\ turn = max_turns /\ Len(candidate_ids) <= 3) => [](~BudgetLoss))

\* the rule itself acted: two or three candidates below the posterior
\* threshold in one of the last two turns, and make_guess_fn is about to be called
C36_Witness ==
    /\ pc = "make_guess"
    /\ LateTurn
    /\ turn > 1
    /\ Len(candidate_ids) \in 2..3
    /\ ~PMapAtLeastTau(Len(candidate_ids))

\* a loss by budget exhaustion after a game of at least one turn: more than 3
\* candidates were left
C36_WitnessLoss ==
    /\ BudgetLoss
    /\ max_turns >= 2
    /\ Len(candidate_ids) > 3

\* the truthful answer for attribute a: yes iff the topic's value is true, no
\* iff it is false, unknown iff the topic has no value
TruthfulAnswer(a) ==
    LET v == Get(obj_by_id(kb, topic_object_id).attributes, a, PyNone)
    IN  IF v = "True" THEN "yes" ELSE IF v = "False" THEN "no" ELSE "unknown"
\* every answer of the host so far is the truthful one for the question before it
AllTruthful ==
    \A i \in DOMAIN events :
        events[i].agent = "host" =>
            Get(events[i].action, "answer", PyNone)
                = TruthfulAnswer(Get(events[i - 1].action, "attribute_id", PyNone))
TopicInKB == topic_object_id \in ObjectIds(kb)

\* C37: with the topic in the Knowledge Base and only truthful answers, the
\* topic's id is a candidate, the candidates are not empty, make_guess does not
\* return None and the game does not end with result error
C37_TopicSurvives ==
    (TopicInKB /\ AllTruthful) =>
        /\ topic_object_id \in Range(candidate_ids)
        /\ candidate_ids # << >>
        /\ make_guess_value # None
        /\ ~EndedInError
        /\ \A i \in DOMAIN calls : calls[i].fn = "make_guess_fn" => calls[i].ret # None

\* two truthful yes/no answers were fed to the guesser and narrowed the
\* candidates down, the topic among them, and play() has returned
C37_Witness ==
    /\ TopicInKB
    /\ AllTruthful
    /\ Cardinality(constraints) = 2
    /\ Len(candidate_ids) < Len(kb.objects)
    /\ topic_object_id \in Range(candidate_ids)
    /\ pc = "done"

\* C40: the only error is no_guess_available; it is returned exactly when a
\* turn starts with no candidate: should_guess is then true and make_guess
\* returns None.  A question is asked only with candidates left, so the guess
\* made when no question is left is never None.
C40_OnlyNoGuessAvailable ==
    /\ [](EndedInError =>
            /\ returned[1].reason = "no_guess_available"
            /\ candidate_ids = << >>)
    /\ []((pc \in {"ask", "fallback_guess"}) => candidate_ids # << >>)
    /\ [][(StartOfTurn /\ candidate_ids = << >>) => pc' = "make_guess"]_vars
    /\ [][(pc = "make_guess") =>
            ((candidate_ids = << >>) <=> (pc' = "done" /\ returned'[1].result = "error"))]_vars

\* contradictory answers emptied the candidates and play() returned the error
C40_Witness ==
    /\ EndedInError
    /\ returned[1].reason = "no_guess_available"
    /\ candidate_ids = << >>
    /\ Len(events) >= 2

\* no question was left and the guesser guessed at once
C40_WitnessFallback ==
    /\ pc \in {"check_guess", "done"}
    /\ \E i \in DOMAIN calls : calls[i].fn = "ask_fn" /\ calls[i].ret = None

====
